---- MODULE Spec2Model ----
(***************************************************************************)
(* A model of ankiconnect-rs: the search-query builder                     *)
(* (src/builders/query.rs), the note builder and the Note / Model value    *)
(* types (src/builders/note.rs, src/models/note.rs, src/models/model.rs),  *)
(* the AnkiConnect request sender and error classifier (src/http.rs),      *)
(* the resource clients (src/client/) and the older single client          *)
(* (src/anki_connect_client.rs).                                           *)
(*                                                                         *)
(* Rust Strings are TLA+ strings; Option<T> is a tuple: <<>> is None and   *)
(* <<x>> is Some(x).  Result<T, E> is a record with an "ok" flag.          *)
(***************************************************************************)
EXTENDS Integers, Sequences, FiniteSets, TLC

VARIABLES
    esc_in,     \* the literal handed to QueryBuilder::new().text(..).build()
    esc_out,    \* Option: the string of the Query it returned
    qb,         \* the query builder value: parts, negated, current_field
    qtype,      \* the type of the value in hand: QueryBuilder, FieldQueryBuilder or Query
    query,      \* Option: the string of the Query returned by build()
    last_call,  \* the last builder method called and its argument
    appended,   \* history: the number of appending methods called on the builder
    error_msg,  \* the error string handed to parse_anki_connect_error
    classified, \* Option: the AnkiConnectError it returned
    model_in,   \* the Vec<Field> handed to Model::new
    model_result, \* Option: the Result<Model> it returned
    front_result, \* Option: the Option<Field> front_field returned for that Model
    back_result, \* Option: the Option<Field> back_field returned for that Model
    nb,         \* Option: the NoteBuilder in hand
    foreign_ref, \* history: a FieldRef of a model other than the builder's was passed
    note_result, \* Option: the Result<Note, NoteError> returned by build()
    last_write, \* history: per field name, the last with_field / with_field_raw call
    overwrote,  \* history: a with_field / with_field_raw call named a field already written
    tag_calls,  \* history: the tags passed to with_tag, in call order
    owned_note, \* Option: the Note its owner holds, after the methods called on it
    note_call,  \* the last Note constructor or method called, its arguments and return
    client_call, \* the last resource-client method called and its argument
    sent,       \* the requests that call handed to the RequestSender, in order
    client_result, \* Option: the Result that call returned
    answers,    \* history: the transport's answers to those requests, in order
    pending,    \* get_all: the (name, id) entries its loop has still to visit
    models      \* get_all: the Vec<Model> its loop has built so far

vars == <<esc_in, esc_out, qb, qtype, query, last_call, appended, error_msg, classified,
          model_in, model_result, front_result, back_result, nb, foreign_ref, note_result, last_write, overwrote,
          tag_calls, owned_note, note_call,
          client_call, sent, client_result, answers, pending, models>>
client_vars == <<client_call, sent, client_result, answers, pending, models>>
classify_vars == <<error_msg, classified>>
model_vars == <<model_in, model_result, front_result, back_result>>
noteop_vars == <<owned_note, note_call>>
note_vars == <<nb, foreign_ref, note_result, last_write, overwrote, tag_calls, noteop_vars>>
escape_vars == <<esc_in, esc_out>>
query_vars == <<qb, qtype, query, last_call, appended>>

(***************************************************************************)
(* Bounds and input sets                                                   *)
(***************************************************************************)
MaxLen == 3
MaxParts == 2
MaxPieces == 2
MaxFields == 3
MaxMedia == 1
MaxTagCalls == 2
MaxModels == 2
MaxAttach == 2

None == <<>>
Some(x) == <<x>>

\* The characters literals are drawn from: the eight characters of the
\* escape set, a letter and a space.
EscapeAlphabet == {"\"", "*", "_", "\\", "(", ")", ":", "-", "a", " "}

RECURSIVE StringsUpTo(_, _)
StringsUpTo(alphabet, n) ==
    IF n = 0 THEN {""}
    ELSE LET shorter == StringsUpTo(alphabet, n - 1)
         IN  shorter \cup {s \o c : s \in shorter, c \in alphabet}

EscapeInputs == StringsUpTo(EscapeAlphabet, MaxLen)

QueryLiterals == {"dog", "My Deck", "a*b"}
QueryFieldNames == {"Front", "My_Field"}
QueryCardStates == {"Due", "Learning", "BuriedManual"}
QueryFlags == {"Red", "Purple"}
\* the variants of the two enums
CardStates ==
    {"Due", "New", "Learning", "Review", "Suspended", "Buried", "BuriedSibling",
     "BuriedManual"}
Flags == {"Red", "Orange", "Green", "Blue", "Pink", "Turquoise", "Purple"}
QueryNumbers == {7}

\* Model::new is handed every vector of up to MaxFields fields over these
\* names and ordinals.
ModelFieldNames == {"Front", "front", "Back", "Question", "my answer", "Extra"}
ModelOrds == {0, 1}

SeqsUpTo(S, n) == UNION {[1..k -> S] : k \in 0..n}

\* Notes are built for the models with these field names.
NoteFieldNames == {"Front", "Back", "Extra"}
NoteModelFieldNames == {<<"Front">>, <<"Front", "Back">>, <<"Back", "Extra">>}
NoteContents == {"a<b"}
NoteFieldContents == {"<a>", "\"&"}
NoteTags == {"t1", "t2"}
NoteFilenames == {"a.mp3"}

\* Deck names: the names of the tests, a name with a special character and
\* a space, and a name with neither.
DeckNames == {"Japanese::Vocabulary", "My Deck", "a_b c", "a"}
DeckIds == {1234}

\* What the transport can answer to findCards: a failed POST, a body that
\* is no response, or a response with a result or an error.
FindCardsResponses ==
    {[kind |-> "http_error"], [kind |-> "bad_json"],
     [kind |-> "json", result |-> Some(<<1111111, 2222222>>), error |-> None],
     [kind |-> "json", result |-> None, error |-> Some("deck was not found: Default")]}

\* what the transport can answer to a request whose result is a number or a
\* string: no HTTP answer, a body that does not decode, a result, an error
\* string, neither
SimpleResponses ==
    {[kind |-> "http_error"], [kind |-> "bad_json"],
     [kind |-> "json", result |-> Some(1234), error |-> None],
     [kind |-> "json", result |-> None, error |-> Some("unsupported action")],
     [kind |-> "json", result |-> None, error |-> None]}

ClientDeckNames == {"", "Default"}
ClientFilenames == {"", "a.mp3"}
ClientUrls == {"", "http://x/a.mp3"}
ClientData == {"", "QUJD"}

\* modelNamesAndIds answers with a map from model name to id
AllModelIds == [Basic |-> 11, Cloze |-> 22, Custom |-> 33]

ModelNamesAndIds ==
    {[name \in names |-> AllModelIds[name]] :
        names \in {s \in SUBSET DOMAIN AllModelIds : Cardinality(s) <= MaxModels}}

NamesResponses ==
    {[kind |-> "http_error"],
     [kind |-> "json", result |-> None, error |-> Some("collection is not available")]}
       \cup {[kind |-> "json", result |-> Some(map), error |-> None] : map \in ModelNamesAndIds}

\* modelFieldNames answers with the field names of the model
FieldsResponses ==
    {[kind |-> "bad_json"],
     [kind |-> "json", result |-> None, error |-> Some("model was not found: Basic")],
     [kind |-> "json", result |-> Some(<<"Front", "Back">>), error |-> None],
     [kind |-> "json", result |-> Some(<<"Front", "Front">>), error |-> None]}

\* Error strings are built from these pieces: the messages AnkiConnect is
\* known to send, the prefixes of its parameterised messages, names, a
\* space, and near misses of a prefix.
ErrorPieces ==
    {"deck was not found: ", "model was not found: ",
     "invalid columnId: ", "invalid card order: ",
     "cannot create note because it is a duplicate",
     "cannot create note because it is empty",
     "You must provide a \"data\", \"path\", or \"url\" field.",
     "Model name already exists",
     "The field values you have provided would make an empty question on all cards.",
     "unsupported action",
     "NonExistingDeck", "A", " ", "Deck was not found: ", "deck was not found:"}

RECURSIVE Concatenations(_, _)
Concatenations(pieces, n) ==
    IF n = 0 THEN {""}
    ELSE LET shorter == Concatenations(pieces, n - 1)
         IN  shorter \cup {s \o piece : s \in shorter, piece \in pieces}

ErrorInputs == Concatenations(ErrorPieces, MaxPieces)

\* error strings of each kind the classifier tells apart
SendErrors ==
    {"deck was not found: A", "model was not found: Basic", "invalid columnId: x",
     "cannot create note because it is a duplicate", "Model name already exists",
     "unsupported action", "collection is not available", ""}

\* what the transport can answer to send: no HTTP answer, a body that is no
\* response, or a response with every combination of a null or non-null
\* result and a null or non-null error
SendResponses ==
    {[kind |-> "http_error"], [kind |-> "bad_json"]}
       \cup {[kind |-> "json", result |-> r, error |-> e] :
                r \in {None, Some(1234), Some(5678)},
                e \in {None} \cup {Some(s) : s \in SendErrors}}

(***************************************************************************)
(* Strings                                                                 *)
(***************************************************************************)
Char(s, i) == SubSeq(s, i, i)

\* str::contains(char)
str_contains_char(s, c) == \E i \in 1..Len(s) : Char(s, i) = c

\* a join that ends every part, the last included, with the separator
RECURSIVE join_ending_each_part(_, _)
join_ending_each_part(parts, sep) ==
    IF Len(parts) = 0 THEN ""
    ELSE parts[1] \o sep \o join_ending_each_part(Tail(parts), sep)

\* str::contains(&str)
str_contains(s, pat) ==
    \E i \in 1..(Len(s) - Len(pat) + 1) : SubSeq(s, i, i + Len(pat) - 1) = pat

\* u8::to_ascii_lowercase: A..Z become a..z, every other char is kept
to_ascii_lowercase_char(c) ==
    LET upper == "ABCDEFGHIJKLMNOPQRSTUVWXYZ"
        lower == "abcdefghijklmnopqrstuvwxyz"
        at == {i \in 1..26 : Char(upper, i) = c}
    IN  IF at = {} THEN c ELSE Char(lower, CHOOSE i \in at : TRUE)

RECURSIVE to_ascii_lowercase(_)
to_ascii_lowercase(s) ==
    IF s = "" THEN ""
    ELSE to_ascii_lowercase_char(Char(s, 1)) \o to_ascii_lowercase(SubSeq(s, 2, Len(s)))

\* str::eq_ignore_ascii_case
eq_ignore_ascii_case(a, b) == to_ascii_lowercase(a) = to_ascii_lowercase(b)

\* <[String]>::join(sep)
RECURSIVE join(_, _)
join(parts, sep) ==
    IF Len(parts) = 0 THEN ""
    ELSE IF Len(parts) = 1 THEN parts[1]
    ELSE parts[1] \o sep \o join(Tail(parts), sep)

starts_with_ignoring_trailing_space(s, p) ==
    \/ Len(s) >= Len(p) /\ SubSeq(s, 1, Len(p)) = p
    \/ /\ p # "" /\ SubSeq(p, Len(p), Len(p)) = " "
       /\ Len(s) >= Len(p) - 1 /\ SubSeq(s, 1, Len(p) - 1) = SubSeq(p, 1, Len(p) - 1)

\* str::starts_with(&str)
starts_with(s, p) == Len(s) >= Len(p) /\ SubSeq(s, 1, Len(p)) = p

\* str::trim_start_matches(&str): removes the prefix p as often as it repeats
RECURSIVE trim_start_matches(_, _)
trim_start_matches(s, p) ==
    IF p # "" /\ starts_with(s, p)
    THEN trim_start_matches(SubSeq(s, Len(p) + 1, Len(s)), p)
    ELSE s

\* char::is_whitespace, on the characters of the model
is_whitespace(c) == c \in {" ", "\t", "\n", "\r"}

RECURSIVE trim_start(_)
trim_start(s) ==
    IF s # "" /\ is_whitespace(Char(s, 1)) THEN trim_start(SubSeq(s, 2, Len(s))) ELSE s

RECURSIVE trim_end(_)
trim_end(s) ==
    IF s # "" /\ is_whitespace(Char(s, Len(s)))
    THEN trim_end(SubSeq(s, 1, Len(s) - 1))
    ELSE s

\* str::trim
trim(s) == trim_end(trim_start(s))

(***************************************************************************)
(* AnkiConnectError (src/error.rs) and its classifier (src/http.rs)        *)
(***************************************************************************)
\* a variant with its String, if it carries one
AnkiConnectError(variant, arg) == [variant |-> variant, arg |-> arg]

parse_anki_connect_error(error) ==
    IF starts_with(error, "deck was not found: ")
    THEN AnkiConnectError("DeckNotFound",
                          Some(trim(trim_start_matches(error, "deck was not found: "))))
    ELSE IF starts_with(error, "model was not found: ")
    THEN AnkiConnectError("ModelNotFound",
                          Some(trim(trim_start_matches(error, "model was not found: "))))
    ELSE IF error = "cannot create note because it is a duplicate"
    THEN AnkiConnectError("DuplicateNote", None)
    ELSE IF error = "cannot create note because it is empty"
    THEN AnkiConnectError("EmptyNote", None)
    ELSE IF starts_with(error, "invalid columnId: ")
    THEN AnkiConnectError("InvalidColumnId",
                          Some(trim(trim_start_matches(error, "invalid columnId: "))))
    ELSE IF starts_with(error, "invalid card order: ")
    THEN AnkiConnectError("InvalidCardOrder",
                          Some(trim(trim_start_matches(error, "invalid card order: "))))
    ELSE IF error = "You must provide a \"data\", \"path\", or \"url\" field."
    THEN AnkiConnectError("MissingMediaField", None)
    ELSE IF error = "Model name already exists"
    THEN AnkiConnectError("ModelNameExists", None)
    ELSE IF error
            = "The field values you have provided would make an empty question on all cards."
    THEN AnkiConnectError("EmptyQuestion", None)
    ELSE IF error = "unsupported action"
    THEN AnkiConnectError("UnsupportedAction", None)
    ELSE AnkiConnectError("Other", Some(error))

\* The tests of parse_anki_connect_error, in its order, as rows
ClassifierRows ==
    <<[test |-> "starts_with", pattern |-> "deck was not found: ", variant |-> "DeckNotFound"],
      [test |-> "starts_with", pattern |-> "model was not found: ", variant |-> "ModelNotFound"],
      [test |-> "eq", pattern |-> "cannot create note because it is a duplicate",
       variant |-> "DuplicateNote"],
      [test |-> "eq", pattern |-> "cannot create note because it is empty",
       variant |-> "EmptyNote"],
      [test |-> "starts_with", pattern |-> "invalid columnId: ", variant |-> "InvalidColumnId"],
      [test |-> "starts_with", pattern |-> "invalid card order: ",
       variant |-> "InvalidCardOrder"],
      [test |-> "eq", pattern |-> "You must provide a \"data\", \"path\", or \"url\" field.",
       variant |-> "MissingMediaField"],
      [test |-> "eq", pattern |-> "Model name already exists", variant |-> "ModelNameExists"],
      [test |-> "eq",
       pattern |-> "The field values you have provided would make an empty question on all cards.",
       variant |-> "EmptyQuestion"],
      [test |-> "eq", pattern |-> "unsupported action", variant |-> "UnsupportedAction"]>>

\* a test that looks at the first five characters only
RowMatches_on_first_word(row, error) ==
    Len(error) >= 5 /\ SubSeq(error, 1, 5) = SubSeq(row.pattern, 1, 5)

\* the condition of a row
RowMatches(row, error) ==
    IF row.test = "starts_with" THEN starts_with(error, row.pattern) ELSE error = row.pattern

\* the branch of a row
RowResult(row, error) ==
    IF row.test = "starts_with"
    THEN AnkiConnectError(row.variant, Some(trim(trim_start_matches(error, row.pattern))))
    ELSE AnkiConnectError(row.variant, None)

\* the if / else-if chain with its rows in the given order, from the i-th on
RECURSIVE parse_in_order(_, _, _)
parse_in_order(error, rows, i) ==
    IF i > Len(rows) THEN AnkiConnectError("Other", Some(error))
    ELSE IF RowMatches(rows[i], error) THEN RowResult(rows[i], error)
    ELSE parse_in_order(error, rows, i + 1)

(***************************************************************************)
(* Result, AnkiError, NoteError (src/error.rs)                             *)
(***************************************************************************)
Ok(v) == [ok |-> TRUE, value |-> v]
Err(e) == [ok |-> FALSE, error |-> e]

AnkiError_ValidationError(msg) == [variant |-> "ValidationError", arg |-> Some(msg)]

NoteError_UnknownField(name) == [variant |-> "UnknownField", arg |-> Some(name)]

(***************************************************************************)
(* Field, Model, FieldRef (src/models/model.rs)                            *)
(***************************************************************************)
Field_new(name, ord) == [name |-> name, ord |-> ord]

Field_name(field) == field.name

Field_is_front(field) ==
    \/ eq_ignore_ascii_case(field.name, "front")
    \/ str_contains(field.name, "front")
    \/ str_contains(field.name, "question")

Field_is_back(field) ==
    \/ eq_ignore_ascii_case(field.name, "back")
    \/ str_contains(field.name, "back")
    \/ str_contains(field.name, "answer")

\* The duplicate check of Model::new: the name of the first field whose name
\* was seen before, if any.
RECURSIVE Model_new_duplicate(_, _, _)
Model_new_duplicate(fields, i, seen_names) ==
    IF i > Len(fields) THEN None
    ELSE IF Field_name(fields[i]) \in seen_names THEN Some(Field_name(fields[i]))
    ELSE Model_new_duplicate(fields, i + 1, seen_names \cup {Field_name(fields[i])})

Model_new_allowing_empty(id, name, fields) ==
    LET dup == Model_new_duplicate(fields, 1, {})
    IN  IF dup # None
        THEN Err(AnkiError_ValidationError("Duplicate field name: " \o dup[1]))
        ELSE Ok([id |-> id, name |-> name, fields |-> fields])

Model_new(id, name, fields) ==
    IF Len(fields) = 0
    THEN Err(AnkiError_ValidationError("Model must have at least one field"))
    ELSE LET dup == Model_new_duplicate(fields, 1, {})
         IN  IF dup # None
             THEN Err(AnkiError_ValidationError("Duplicate field name: " \o dup[1]))
             ELSE Ok([id |-> id, name |-> name, fields |-> fields])

\* fields.iter().find(|f| f.name() == name)
Model_get_field(model, name) ==
    LET found == {i \in 1..Len(model.fields) : Field_name(model.fields[i]) = name}
    IN  IF found = {} THEN None
        ELSE Some(model.fields[CHOOSE i \in found : \A j \in found : i <= j])

\* fields.iter().find(|f| f.is_front())
Model_front_field(model) ==
    LET found == {i \in 1..Len(model.fields) : Field_is_front(model.fields[i])}
    IN  IF found = {} THEN None
        ELSE Some(model.fields[CHOOSE i \in found : \A j \in found : i <= j])

\* fields.iter().find(|f| f.is_back())
Model_back_field(model) ==
    LET found == {i \in 1..Len(model.fields) : Field_is_back(model.fields[i])}
    IN  IF found = {} THEN None
        ELSE Some(model.fields[CHOOSE i \in found : \A j \in found : i <= j])

Model_field_ref_unchecked(model, name) ==
    Some([model |-> model, field |-> Field_new(name, 0)])

Model_field_ref(model, name) ==
    LET field == Model_get_field(model, name)
    IN  IF field = None THEN None ELSE Some([model |-> model, field |-> field[1]])

FieldRef_name(field_ref) == Field_name(field_ref.field)

(***************************************************************************)
(* MediaSource, Media, FieldMedia (src/models/media.rs)                    *)
(***************************************************************************)
MediaSource_Path(path) == [variant |-> "Path", value |-> path]
MediaSource_Url(url) == [variant |-> "Url", value |-> url]
MediaSource_Base64(data) == [variant |-> "Base64", value |-> data]

Media_new(source, filename, media_type) ==
    [source |-> source, filename |-> filename, media_type |-> media_type]

Media_audio(source, filename) == Media_new(source, filename, "Audio")
Media_image(source, filename) == Media_new(source, filename, "Image")
Media_video(source, filename) == Media_new(source, filename, "Video")

FieldMedia(media, field) == [media |-> media, field |-> field]

(***************************************************************************)
(* Note (src/models/note.rs)                                               *)
(***************************************************************************)
\* an insert that keeps the value of a key already present
HashMap_insert_keeping_first(map, key, value) ==
    [k \in DOMAIN map \cup {key} |-> IF k \in DOMAIN map THEN map[k] ELSE value]

\* HashMap::insert
HashMap_insert(map, key, value) ==
    [k \in DOMAIN map \cup {key} |-> IF k = key THEN value ELSE map[k]]

HashMap_new == [k \in {} |-> ""]

\* The results Note::new can return.  The loop over field_values.keys()
\* visits the keys in the HashMap's order, which is not determined, and
\* returns at the first key that is no field of the model; the loop over the
\* media runs in the Vec's order.
Note_new_unchecked_media(model, field_values, tags, media) ==
    LET unknown_keys == {k \in DOMAIN field_values : Model_get_field(model, k) = None}
    IN  IF unknown_keys # {}
        THEN {Err(NoteError_UnknownField(k)) : k \in unknown_keys}
        ELSE {Ok([id |-> None, model |-> model, field_values |-> field_values,
                  tags |-> tags, media |-> media])}

Note_new(model, field_values, tags, media) ==
    LET unknown_keys == {k \in DOMAIN field_values : Model_get_field(model, k) = None}
        unknown_media == {i \in 1..Len(media) : Model_get_field(model, media[i].field) = None}
    IN  IF unknown_keys # {}
        THEN {Err(NoteError_UnknownField(k)) : k \in unknown_keys}
        ELSE IF unknown_media # {}
        THEN {Err(NoteError_UnknownField(
                      media[CHOOSE i \in unknown_media : \A j \in unknown_media : i <= j].field))}
        ELSE {Ok([id |-> None, model |-> model, field_values |-> field_values,
                  tags |-> tags, media |-> media])}

\* Note::with_id
Note_with_id(id, model, field_values, tags, media) ==
    {IF r.ok THEN Ok([r.value EXCEPT !.id = Some(id)]) ELSE r :
        r \in Note_new(model, field_values, tags, media)}

\* The &mut self methods: the Note after the call, and what the call returned.
Note_update_field_unchecked(n, field_name, value) ==
    [note |-> [n EXCEPT !.field_values = HashMap_insert(@, field_name, value)],
     return |-> Ok("()")]

Note_update_field(n, field_name, value) ==
    IF Model_get_field(n.model, field_name) = None
    THEN [note |-> n, return |-> Err(NoteError_UnknownField(field_name))]
    ELSE [note |-> [n EXCEPT !.field_values = HashMap_insert(@, field_name, value)],
          return |-> Ok("()")]

Note_add_tag(n, tag) == [note |-> [n EXCEPT !.tags = @ \cup {tag}], return |-> "()"]

Note_remove_tag(n, tag) ==
    [note |-> [n EXCEPT !.tags = @ \ {tag}], return |-> tag \in n.tags]

\* an add_media that keeps only the new attachment
Note_add_media_replacing(n, field_name, media) ==
    IF Model_get_field(n.model, field_name) = None
    THEN [note |-> n, return |-> Err(NoteError_UnknownField(field_name))]
    ELSE [note |-> [n EXCEPT !.media = <<FieldMedia(media, field_name)>>],
          return |-> Ok("()")]

Note_add_media(n, field_name, media) ==
    IF Model_get_field(n.model, field_name) = None
    THEN [note |-> n, return |-> Err(NoteError_UnknownField(field_name))]
    ELSE [note |-> [n EXCEPT !.media = Append(@, FieldMedia(media, field_name))],
          return |-> Ok("()")]

(***************************************************************************)
(* NoteBuilder (src/builders/note.rs)                                      *)
(***************************************************************************)
encode_text_char_keeping_ampersand(c) ==
    CASE c = "<" -> "&lt;"
      [] c = ">" -> "&gt;"
      [] OTHER -> c

\* html_escape::encode_text, the encoding for text nodes: & < > become
\* entities, every other char (the double quote too) is kept
encode_text_char(c) ==
    CASE c = "&" -> "&amp;"
      [] c = "<" -> "&lt;"
      [] c = ">" -> "&gt;"
      [] OTHER -> c

RECURSIVE encode_text(_)
encode_text(content) ==
    IF content = "" THEN ""
    ELSE encode_text_char(Char(content, 1)) \o encode_text(SubSeq(content, 2, Len(content)))

NoteBuilder_new(model) ==
    [model |-> model, field_values |-> HashMap_new, tags |-> {}, media |-> <<>>]

NoteBuilder_with_field(b, field_ref, content) ==
    [b EXCEPT !.field_values = HashMap_insert(@, FieldRef_name(field_ref), encode_text(content))]

NoteBuilder_with_field_raw(b, field_ref, content) ==
    [b EXCEPT !.field_values = HashMap_insert(@, FieldRef_name(field_ref), content)]

NoteBuilder_with_tag_replacing(b, tag) == [b EXCEPT !.tags = {tag}]

\* HashSet::insert
NoteBuilder_with_tag(b, tag) == [b EXCEPT !.tags = @ \cup {tag}]

NoteBuilder_with_media(b, field_ref, media) ==
    [b EXCEPT !.media = Append(@, FieldMedia(media, FieldRef_name(field_ref)))]

NoteBuilder_with_audio(b, field_ref, source, filename) ==
    NoteBuilder_with_media(b, field_ref, Media_audio(source, filename))

NoteBuilder_with_image(b, field_ref, source, filename) ==
    NoteBuilder_with_media(b, field_ref, Media_image(source, filename))

NoteBuilder_with_video(b, field_ref, source, filename) ==
    NoteBuilder_with_media(b, field_ref, Media_video(source, filename))

\* a build that looks at the media attachments before the field values
NoteBuilder_build_media_first(b) ==
    LET unknown_media == {i \in 1..Len(b.media) : Model_get_field(b.model, b.media[i].field) = None}
    IN  IF unknown_media # {}
        THEN {Err(NoteError_UnknownField(
                      b.media[CHOOSE i \in unknown_media : \A j \in unknown_media : i <= j].field))}
        ELSE Note_new(b.model, b.field_values, b.tags, b.media)

NoteBuilder_build(b) == Note_new(b.model, b.field_values, b.tags, b.media)

(***************************************************************************)
(* Deck (src/models/deck.rs)                                               *)
(***************************************************************************)
Deck_new(id, name) == [id |-> id, name |-> name]

Deck_name(deck) == deck.name

(***************************************************************************)
(* QueryBuilder (src/builders/query.rs)                                    *)
(***************************************************************************)
CardState_as_query_str(state) ==
    CASE state = "Due" -> "is:due"
      [] state = "New" -> "is:new"
      [] state = "Learning" -> "is:learn"
      [] state = "Review" -> "is:review"
      [] state = "Suspended" -> "is:suspended"
      [] state = "Buried" -> "is:buried"
      [] state = "BuriedSibling" -> "is:buried-sibling"
      [] state = "BuriedManual" -> "is:buried-manually"

Flag_as_u8(flag) ==
    CASE flag = "Red" -> 1
      [] flag = "Orange" -> 2
      [] flag = "Green" -> 3
      [] flag = "Blue" -> 4
      [] flag = "Pink" -> 5
      [] flag = "Turquoise" -> 6
      [] flag = "Purple" -> 7

needs_escape_no_dash(c) == c \in {"\"", "*", "_", "\\", "(", ")", ":"}

needs_escape(c) == c \in {"\"", "*", "_", "\\", "(", ")", ":", "-"}

\* The while-let loop of escape_special_chars: i is the position of the next
\* char of s, result the String built so far.
RECURSIVE escape_loop(_, _, _)
escape_loop(s, i, result) ==
    IF i > Len(s) THEN result
    ELSE LET c == Char(s, i)
         IN  escape_loop(s, i + 1,
                         IF needs_escape(c) THEN result \o "\\" \o c
                         ELSE result \o c)

escape_special_chars(s) == escape_loop(s, 1, "")

QueryBuilder_new == [parts |-> <<>>, negated |-> FALSE, current_field |-> None]

add_part_keeping_flag(b, part) ==
    IF b.negated
    THEN [b EXCEPT !.parts = Append(@, "-" \o part)]
    ELSE [b EXCEPT !.parts = Append(@, part)]

add_part(b, part) ==
    IF b.negated
    THEN [b EXCEPT !.parts = Append(@, "-" \o part), !.negated = FALSE]
    ELSE [b EXCEPT !.parts = Append(@, part)]

QueryBuilder_text(b, text) == add_part(b, escape_special_chars(text))

\* a field call that keeps no name
QueryBuilder_field_forgetting_name(b, field_name) == b

QueryBuilder_field(b, field_name) == [b EXCEPT !.current_field = Some(field_name)]

\* Field::name, FieldRef::name: the name of the field handed in
QueryBuilder_in_field(b, field_name) == [b EXCEPT !.current_field = Some(field_name)]

QueryBuilder_in_field_ref(b, field_name) == [b EXCEPT !.current_field = Some(field_name)]

QueryBuilder_has_tag_escaping_prefix(b, tag) ==
    add_part(b, escape_special_chars("tag:" \o tag))

QueryBuilder_has_tag(b, tag) == add_part(b, "tag:" \o escape_special_chars(tag))

QueryBuilder_in_deck_quoting_after_escape(b, deck) ==
    IF str_contains_char(deck, " ") \/ str_contains_char(escape_special_chars(deck), "\\")
    THEN add_part(b, "deck:\"" \o escape_special_chars(deck) \o "\"")
    ELSE add_part(b, "deck:" \o escape_special_chars(deck))

QueryBuilder_in_deck(b, deck) ==
    IF str_contains_char(deck, " ")
    THEN add_part(b, "deck:\"" \o escape_special_chars(deck) \o "\"")
    ELSE add_part(b, "deck:" \o escape_special_chars(deck))

QueryBuilder_in_deck_obj(b, deck) == QueryBuilder_in_deck(b, Deck_name(deck))

QueryBuilder_in_state_escaping(b, state) ==
    add_part(b, escape_special_chars(CardState_as_query_str(state)))

QueryBuilder_in_state(b, state) == add_part(b, CardState_as_query_str(state))

QueryBuilder_not(b) == [b EXCEPT !.negated = TRUE]

QueryBuilder_and_clearing_negation(b) == [b EXCEPT !.negated = FALSE]

QueryBuilder_and(b) == b

QueryBuilder_or(b) == add_part(b, "or")

QueryBuilder_has_flag(b, flag) == add_part(b, "flag:" \o ToString(Flag_as_u8(flag)))

QueryBuilder_interval_at_least(b, days) == add_part(b, "prop:ivl>=" \o ToString(days))

QueryBuilder_due_in(b, days) == add_part(b, "prop:due=" \o ToString(days))

QueryBuilder_reps_less_than(b, count) == add_part(b, "prop:reps<" \o ToString(count))

QueryBuilder_added_in_last_n_days(b, days) == add_part(b, "added:" \o ToString(days))

QueryBuilder_rated_today(b) == add_part(b, "rated:1")

QueryBuilder_rated_in_last_n_days(b, days) == add_part(b, "rated:" \o ToString(days))

\* Query::new(parts.join(" ")) and Query::as_str
QueryBuilder_build(b) == join(b.parts, " ")

\* current_field.take().unwrap(): the unwrap panics on None
with_content(b, content) ==
    IF b.current_field = None THEN [panic |-> TRUE]
    ELSE LET field_name == b.current_field[1]
             taken == [b EXCEPT !.current_field = None]
         IN  add_part(taken, field_name \o ":" \o escape_special_chars(content))

FieldQueryBuilder_is(b, content) == with_content(b, content)

FieldQueryBuilder_contains(b, content) == with_content(b, content)

(***************************************************************************)
(* HttpRequestSender (src/http.rs)                                         *)
(***************************************************************************)
api_version == 6

AnkiConnectRequest(action, params) ==
    [action |-> action, version |-> api_version, params |-> params]

AnkiError_HttpError == [variant |-> "HttpError", arg |-> None]
AnkiError_JsonError == [variant |-> "JsonError", arg |-> None]
AnkiError_AnkiConnectError(e) == [variant |-> "AnkiConnectError", error |-> e]

\* R is the unit type exactly for the callers that expect no result
handle_empty_response(expects_unit) ==
    IF expects_unit THEN Ok("()")
    ELSE Err(AnkiError_AnkiConnectError(AnkiConnectError("Other",
             Some("Empty response from AnkiConnect (both result and error are null)"))))

\* read_json into AnkiConnectResponse<R>: the body is a response object
\* whose result is null or a value of R, and no value but null is one of ()
read_json(expects_unit, response) ==
    IF response.kind = "json" /\ (expects_unit => response.result = None)
    THEN Ok(response)
    ELSE Err(AnkiError_JsonError)

HttpRequestSender_send_result_first(expects_unit, response) ==
    IF response.kind = "http_error" THEN Err(AnkiError_HttpError)
    ELSE IF ~read_json(expects_unit, response).ok THEN read_json(expects_unit, response)
    ELSE IF response.result # None THEN Ok(response.result[1])
    ELSE IF response.error # None
    THEN Err(AnkiError_AnkiConnectError(parse_anki_connect_error(response.error[1])))
    ELSE handle_empty_response(expects_unit)

\* send, from the answer of the transport on
HttpRequestSender_send(expects_unit, response) ==
    IF response.kind = "http_error" THEN Err(AnkiError_HttpError)
    ELSE IF ~read_json(expects_unit, response).ok THEN read_json(expects_unit, response)
    ELSE IF response.error # None
    THEN Err(AnkiError_AnkiConnectError(parse_anki_connect_error(response.error[1])))
    ELSE IF response.result # None THEN Ok(response.result[1])
    ELSE handle_empty_response(expects_unit)

(***************************************************************************)
(* DeckClient (src/client/decks.rs)                                        *)
(***************************************************************************)
CardId(id) == [card_id |-> id]

\* the request it sends and, given the transport's answer, what it returns
DeckClient_get_cards_in_deck_request(deck_name) ==
    AnkiConnectRequest("findCards",
        Some([query |-> QueryBuilder_build(QueryBuilder_in_deck(QueryBuilder_new, deck_name))]))

DeckClient_get_cards_in_deck(deck_name, response) ==
    LET ids == HttpRequestSender_send(FALSE, response)
    IN  IF ids.ok THEN Ok([i \in 1..Len(ids.value) |-> CardId(ids.value[i])]) ELSE ids

DeckId(id) == [deck_id |-> id]

\* A client method, given the transport's answer to the request it may
\* send: the requests it sends, in order, and the Result it returns.
DeckClient_create(name, response) ==
    IF name = ""
    THEN [sent |-> <<>>,
          result |-> Err(AnkiError_ValidationError("Deck name cannot be empty"))]
    ELSE LET id == HttpRequestSender_send(FALSE, response)
         IN  [sent |-> <<AnkiConnectRequest("createDeck", Some([deck |-> name]))>>,
              result |-> IF id.ok THEN Ok(DeckId(id.value)) ELSE id]

(***************************************************************************)
(* MediaClient (src/client/media.rs)                                       *)
(***************************************************************************)
StoreMediaFileParams(source, filename, overwrite) ==
    [path |-> IF source.variant = "Path" THEN Some(source.value) ELSE None,
     url |-> IF source.variant = "Url" THEN Some(source.value) ELSE None,
     data |-> IF source.variant = "Base64" THEN Some(source.value) ELSE None,
     filename |-> filename,
     deleteExisting |-> overwrite]

MediaClient_store_file(source, filename, overwrite, response) ==
    IF filename = ""
    THEN [sent |-> <<>>,
          result |-> Err(AnkiError_ValidationError("Filename cannot be empty"))]
    ELSE [sent |-> <<AnkiConnectRequest("storeMediaFile",
                        Some(StoreMediaFileParams(source, filename, overwrite)))>>,
          result |-> HttpRequestSender_send(FALSE, response)]

MediaClient_store_from_url(url, filename, overwrite, response) ==
    IF url = ""
    THEN [sent |-> <<>>,
          result |-> Err(AnkiError_ValidationError("URL cannot be empty"))]
    ELSE MediaClient_store_file(MediaSource_Url(url), filename, overwrite, response)

MediaClient_store_from_base64_unchecked(data, filename, overwrite, response) ==
    MediaClient_store_file(MediaSource_Base64(data), filename, overwrite, response)

MediaClient_store_from_base64(data, filename, overwrite, response) ==
    IF data = ""
    THEN [sent |-> <<>>,
          result |-> Err(AnkiError_ValidationError("Base64 data cannot be empty"))]
    ELSE MediaClient_store_file(MediaSource_Base64(data), filename, overwrite, response)

MediaClient_retrieve_file(filename, response) ==
    IF filename = ""
    THEN [sent |-> <<>>,
          result |-> Err(AnkiError_ValidationError("Filename cannot be empty"))]
    ELSE [sent |-> <<AnkiConnectRequest("retrieveMediaFile", Some([filename |-> filename]))>>,
          result |-> HttpRequestSender_send(FALSE, response)]

MediaClient_delete_file(filename, response) ==
    IF filename = ""
    THEN [sent |-> <<>>,
          result |-> Err(AnkiError_ValidationError("Filename cannot be empty"))]
    ELSE [sent |-> <<AnkiConnectRequest("deleteMediaFile", Some([filename |-> filename]))>>,
          result |-> HttpRequestSender_send(TRUE, response)]

\* DeckClient::delete
DeckClient_delete(deck_name, cards_too, response) ==
    [sent |-> <<AnkiConnectRequest("deleteDecks",
                    Some([decks |-> <<deck_name>>, cardsToo |-> cards_too]))>>,
     result |-> HttpRequestSender_send(TRUE, response)]

\* CardClient::delete_notes (src/client/cards.rs)
CardClient_delete_notes(note_ids, response) ==
    [sent |-> <<AnkiConnectRequest("deleteNotes", Some([notes |-> note_ids]))>>,
     result |-> HttpRequestSender_send(TRUE, response)]

NoteId(id) == [note_id |-> id]

\* the request Media of one attachment
MediaDto(field_media) ==
    LET source == field_media.media.source
    IN  [path |-> IF source.variant = "Path" THEN Some(source.value) ELSE None,
         url |-> IF source.variant = "Url" THEN Some(source.value) ELSE None,
         data |-> IF source.variant = "Base64" THEN Some(source.value) ELSE None,
         filename |-> field_media.media.filename,
         fields |-> <<field_media.field>>]

\* a loop that puts each attachment before those of its list
RECURSIVE prepare_media_prepending(_, _, _)
prepare_media_prepending(media, i, lists) ==
    IF i > Len(media) THEN lists
    ELSE LET dto == MediaDto(media[i])
             type == media[i].media.media_type
         IN  prepare_media_prepending(media, i + 1,
                 CASE type = "Audio" -> [lists EXCEPT !.audio = <<dto>> \o @]
                   [] type = "Video" -> [lists EXCEPT !.video = <<dto>> \o @]
                   [] type = "Image" -> [lists EXCEPT !.picture = <<dto>> \o @])

\* the loop of prepare_note_dto over note.media(), from the i-th on
RECURSIVE prepare_media(_, _, _)
prepare_media(media, i, lists) ==
    IF i > Len(media) THEN lists
    ELSE LET dto == MediaDto(media[i])
             type == media[i].media.media_type
         IN  prepare_media(media, i + 1,
                 CASE type = "Audio" -> [lists EXCEPT !.audio = Append(@, dto)]
                   [] type = "Video" -> [lists EXCEPT !.video = Append(@, dto)]
                   [] type = "Image" -> [lists EXCEPT !.picture = Append(@, dto)])

\* the orders in which a HashSet can be iterated
HashSet_iter(set) ==
    {order \in [1..Cardinality(set) -> set] :
        \A i, j \in 1..Cardinality(set) : i # j => order[i] # order[j]}

\* prepare_note_dto; tags is the order in which note.tags() was iterated
CardClient_prepare_note_dto(deck, note, allow_duplicate, duplicate_scope, tags) ==
    LET lists == prepare_media(note.media, 1,
                               [audio |-> <<>>, video |-> <<>>, picture |-> <<>>])
    IN  [deck_name |-> Deck_name(deck),
         model_name |-> note.model.name,
         fields |-> note.field_values,
         options |-> [allow_duplicate |-> allow_duplicate,
                      duplicate_scope |-> duplicate_scope,
                      duplicate_scope_options |-> None],
         tags |-> tags,
         audio |-> lists.audio,
         video |-> lists.video,
         picture |-> lists.picture]

\* CardClient::add_note
CardClient_add_note(deck, note, allow_duplicate, duplicate_scope, tags, response) ==
    LET note_dto == CardClient_prepare_note_dto(deck, note, allow_duplicate,
                                                duplicate_scope, tags)
        note_id == HttpRequestSender_send(FALSE, response)
    IN  [sent |-> <<AnkiConnectRequest("addNote", Some([note |-> note_dto]))>>,
         result |-> IF note_id.ok THEN Ok(NoteId(note_id.value)) ELSE note_id]

(***************************************************************************)
(* The older client (src/anki_connect_client.rs, src/request_sender.rs)    *)
(***************************************************************************)
ANKI_CONNECT_API_VERSION == 6

AnkiRequestError_HttpError == [variant |-> "HttpError"]
AnkiRequestError_AnkiConnectError(e) == [variant |-> "AnkiConnectError", error |-> e]
AnkiRequestError_InvalidField(field, model) ==
    [variant |-> "InvalidField", field |-> field, model |-> model]

AnkiModelIdentifier_new(id, name) == [id |-> id, name |-> name]

\* HttpAnkiConnectRequestSender::send_request: the decoded response, or the
\* error of the POST or of read_json
send_request(response) ==
    IF response.kind = "json" THEN Ok(response) ELSE Err(AnkiRequestError_HttpError)

\* AnkiConnectResponse::into_result
AnkiConnectResponse_into_result(response) ==
    IF response.error # None
    THEN Err(AnkiRequestError_AnkiConnectError(parse_anki_connect_error(response.error[1])))
    ELSE IF response.result # None THEN Ok(response.result[1])
    ELSE Err(AnkiRequestError_AnkiConnectError(AnkiConnectError("Other",
             Some("Both result and error are null. Probably a bug in AnkiConnect"))))

\* self.request_sender.send_request(request)?.into_result()
send_request_into_result(response) ==
    IF send_request(response).ok
    THEN AnkiConnectResponse_into_result(send_request(response).value)
    ELSE send_request(response)

AnkiClient_get_field_names_for_model_request(model) ==
    [action |-> "modelFieldNames", version |-> ANKI_CONNECT_API_VERSION,
     params |-> Some([modelName |-> model.name])]

AnkiClient_get_field_names_for_model(model, response) == send_request_into_result(response)

\* a validation that accepts every card once the field names were fetched
AnkiClient_validate_fields_unchecked(anki_card, response) ==
    LET model_field_names == AnkiClient_get_field_names_for_model(anki_card.model, response)
    IN  IF ~model_field_names.ok THEN {model_field_names} ELSE {Ok("()")}

\* The results validate_fields can return.  The loop visits the keys of the
\* card's HashMap in an order that is not determined and returns at the
\* first that is not among the model's field names.
AnkiClient_validate_fields(anki_card, response) ==
    LET model_field_names == AnkiClient_get_field_names_for_model(anki_card.model, response)
    IN  IF ~model_field_names.ok THEN {model_field_names}
        ELSE LET names == {model_field_names.value[i] :
                              i \in 1..Len(model_field_names.value)}
                 missing == DOMAIN anki_card.fields \ names
             IN  IF missing # {}
                 THEN {Err(AnkiRequestError_InvalidField(f, anki_card.model)) : f \in missing}
                 ELSE {Ok("()")}

\* the addNote request of add_note
AnkiClient_add_note_request(deck, anki_card, allow_duplicate, duplicate_scope) ==
    [action |-> "addNote", version |-> ANKI_CONNECT_API_VERSION,
     params |-> Some([note |-> [deckName |-> Deck_name(deck),
                                modelName |-> anki_card.model.name,
                                fields |-> anki_card.fields,
                                options |-> [allowDuplicate |-> allow_duplicate,
                                             duplicateScope |-> duplicate_scope],
                                tags |-> anki_card.tags]])]

(***************************************************************************)
(* ModelClient (src/client/models.rs)                                      *)
(***************************************************************************)
ModelClient_get_fields_for_name_request(model_name) ==
    AnkiConnectRequest("modelFieldNames", Some([modelName |-> model_name]))

ModelClient_get_fields_for_name(model_name, response) ==
    HttpRequestSender_send(FALSE, response)

\* The orders in which `for (name, id) in result` can visit the entries of
\* the HashMap: every order, each entry once.
HashMap_into_iter(map) ==
    LET n == Cardinality(DOMAIN map)
        orders == {s \in [1..n -> DOMAIN map] : \A i, j \in 1..n : i # j => s[i] # s[j]}
    IN  {[i \in 1..n |-> [name |-> s[i], id |-> map[s[i]]]] : s \in orders}

\* The first statement of get_all: the Result of modelNamesAndIds.
ModelClient_get_all_names(response) == HttpRequestSender_send(FALSE, response)

\* a loop body that leaves out a model whose fields could not be fetched
ModelClient_get_all_body_skipping_failures(entry, built, response) ==
    LET fields == ModelClient_get_fields_for_name(entry.name, response)
    IN  IF ~fields.ok THEN [return |-> None, models |-> built]
        ELSE LET model == Model_new(entry.id, entry.name,
                              [i \in 1..Len(fields.value) |->
                                  Field_new(fields.value[i], i - 1)])
             IN  IF ~model.ok THEN [return |-> Some(model), models |-> built]
                 ELSE [return |-> None, models |-> Append(built, model.value)]

\* One pass of the loop body of get_all for the entry (name, id), given the
\* transport's answer to modelFieldNames: the early return of a `?`, if
\* any, and the Vec after the pass.
ModelClient_get_all_body(entry, built, response) ==
    LET fields == ModelClient_get_fields_for_name(entry.name, response)
    IN  IF ~fields.ok THEN [return |-> Some(fields), models |-> built]
        ELSE LET model == Model_new(entry.id, entry.name,
                              [i \in 1..Len(fields.value) |->
                                  Field_new(fields.value[i], i - 1)])
             IN  IF ~model.ok THEN [return |-> Some(model), models |-> built]
                 ELSE [return |-> None, models |-> Append(built, model.value)]

(***************************************************************************)
(* The state each specification leaves alone                               *)
(***************************************************************************)
QueryIdle ==
    /\ qb = QueryBuilder_new
    /\ qtype = "QueryBuilder"
    /\ query = None
    /\ last_call = [op |-> "new", arg |-> "", num |-> 0]
    /\ appended = 0

EscapeIdle == esc_in = "" /\ esc_out = None

ClassifyIdle == error_msg = "" /\ classified = None

ModelIdle ==
    /\ model_in = <<>>
    /\ model_result = None
    /\ front_result = None
    /\ back_result = None

NoteOpIdle ==
    /\ owned_note = None
    /\ note_call = [op |-> "none"]

NoteIdle ==
    /\ NoteOpIdle
    /\ nb = None
    /\ foreign_ref = FALSE
    /\ note_result = None
    /\ last_write = <<>>
    /\ overwrote = FALSE
    /\ tag_calls = <<>>

ClientIdle ==
    /\ client_call = [op |-> "none", arg |-> ""]
    /\ sent = <<>>
    /\ client_result = None
    /\ answers = <<>>
    /\ pending = <<>>
    /\ models = <<>>

(***************************************************************************)
(* The escaping, observed as QueryBuilder::new().text(s).build()           *)
(***************************************************************************)

InitEscape ==
    /\ esc_in \in EscapeInputs
    /\ esc_out = None
    /\ QueryIdle
    /\ ClassifyIdle
    /\ ModelIdle
    /\ NoteIdle
    /\ ClientIdle

TextBuild ==
    /\ esc_out = None
    /\ esc_out' = Some(QueryBuilder_build(QueryBuilder_text(QueryBuilder_new, esc_in)))
    /\ UNCHANGED <<esc_in, query_vars, classify_vars, model_vars, note_vars, client_vars>>

NextEscape == TextBuild

SpecEscape == InitEscape /\ [][NextEscape]_vars

(***************************************************************************)
(* The builder chain: one action per method of QueryBuilder and of         *)
(* FieldQueryBuilder.  A method exists only on the type that declares it,  *)
(* so each action is guarded by the type of the value in hand.             *)
(***************************************************************************)
NotQueryVars == <<escape_vars, classify_vars, model_vars, note_vars, client_vars>>

\* a call: the method, its string argument ("" if none), its number (0 if none)
Call(op, arg) == [op |-> op, arg |-> arg, num |-> 0]

NumCall(op, n) == [op |-> op, arg |-> "", num |-> n]

\* the methods that call add_part (directly, or through in_deck or with_content)
AppendingOps ==
    {"text", "has_tag", "in_deck", "in_deck_obj", "in_state", "or", "has_flag",
     "interval_at_least", "due_in", "reps_less_than", "added_in_last_n_days",
     "rated_today", "rated_in_last_n_days", "contains", "is"}

\* The value returned by a method: the builder, its type, the call made.
Returns(b, type, call) ==
    /\ qb' = b
    /\ qtype' = type
    /\ last_call' = call
    /\ appended' = IF call.op \in AppendingOps THEN appended + 1 ELSE appended
    /\ UNCHANGED <<query, NotQueryVars>>

OnQueryBuilder == qtype = "QueryBuilder"
OnFieldQueryBuilder == qtype = "FieldQueryBuilder"
MayAppend == Len(qb.parts) < MaxParts

New ==
    /\ qtype = "Query"
    /\ qb' = QueryBuilder_new
    /\ qtype' = "QueryBuilder"
    /\ query' = None
    /\ last_call' = Call("new", "")
    /\ appended' = 0
    /\ UNCHANGED NotQueryVars

Text(s) ==
    /\ OnQueryBuilder /\ MayAppend
    /\ Returns(QueryBuilder_text(qb, s), "QueryBuilder", Call("text", s))

Field(name) ==
    /\ OnQueryBuilder /\ MayAppend
    /\ Returns(QueryBuilder_field(qb, name), "FieldQueryBuilder", Call("field", name))

InField(name) ==
    /\ OnQueryBuilder /\ MayAppend
    /\ Returns(QueryBuilder_in_field(qb, name), "FieldQueryBuilder", Call("in_field", name))

InFieldRef(name) ==
    /\ OnQueryBuilder /\ MayAppend
    /\ Returns(QueryBuilder_in_field_ref(qb, name), "FieldQueryBuilder",
               Call("in_field_ref", name))

\* with_content unwraps the pending field name: a None panics.
Is(content) ==
    /\ OnFieldQueryBuilder
    /\ LET r == FieldQueryBuilder_is(qb, content)
       IN  IF "panic" \in DOMAIN r
           THEN Returns(qb, "panic", Call("is", content))
           ELSE Returns(r, "QueryBuilder", Call("is", content))

Contains(content) ==
    /\ OnFieldQueryBuilder
    /\ LET r == FieldQueryBuilder_contains(qb, content)
       IN  IF "panic" \in DOMAIN r
           THEN Returns(qb, "panic", Call("contains", content))
           ELSE Returns(r, "QueryBuilder", Call("contains", content))

HasTag(tag) ==
    /\ OnQueryBuilder /\ MayAppend
    /\ Returns(QueryBuilder_has_tag(qb, tag), "QueryBuilder", Call("has_tag", tag))

InDeck(deck) ==
    /\ OnQueryBuilder /\ MayAppend
    /\ Returns(QueryBuilder_in_deck(qb, deck), "QueryBuilder", Call("in_deck", deck))

InDeckObj(deck) ==
    /\ OnQueryBuilder /\ MayAppend
    /\ Returns(QueryBuilder_in_deck_obj(qb, deck), "QueryBuilder",
               Call("in_deck_obj", Deck_name(deck)))

InState(state) ==
    /\ OnQueryBuilder /\ MayAppend
    /\ Returns(QueryBuilder_in_state(qb, state), "QueryBuilder", Call("in_state", state))

Not ==
    /\ OnQueryBuilder
    /\ Returns(QueryBuilder_not(qb), "QueryBuilder", Call("not", ""))

And ==
    /\ OnQueryBuilder
    /\ Returns(QueryBuilder_and(qb), "QueryBuilder", Call("and", ""))

Or ==
    /\ OnQueryBuilder /\ MayAppend
    /\ Returns(QueryBuilder_or(qb), "QueryBuilder", Call("or", ""))

HasFlag(flag) ==
    /\ OnQueryBuilder /\ MayAppend
    /\ Returns(QueryBuilder_has_flag(qb, flag), "QueryBuilder", Call("has_flag", flag))

IntervalAtLeast(days) ==
    /\ OnQueryBuilder /\ MayAppend
    /\ Returns(QueryBuilder_interval_at_least(qb, days), "QueryBuilder",
               NumCall("interval_at_least", days))

DueIn(days) ==
    /\ OnQueryBuilder /\ MayAppend
    /\ Returns(QueryBuilder_due_in(qb, days), "QueryBuilder",
               NumCall("due_in", days))

RepsLessThan(count) ==
    /\ OnQueryBuilder /\ MayAppend
    /\ Returns(QueryBuilder_reps_less_than(qb, count), "QueryBuilder",
               NumCall("reps_less_than", count))

AddedInLastNDays(days) ==
    /\ OnQueryBuilder /\ MayAppend
    /\ Returns(QueryBuilder_added_in_last_n_days(qb, days), "QueryBuilder",
               NumCall("added_in_last_n_days", days))

RatedToday ==
    /\ OnQueryBuilder /\ MayAppend
    /\ Returns(QueryBuilder_rated_today(qb), "QueryBuilder", Call("rated_today", ""))

RatedInLastNDays(days) ==
    /\ OnQueryBuilder /\ MayAppend
    /\ Returns(QueryBuilder_rated_in_last_n_days(qb, days), "QueryBuilder",
               NumCall("rated_in_last_n_days", days))

Build_without_content ==
    /\ qtype \in {"QueryBuilder", "FieldQueryBuilder"}
    /\ query' = Some(QueryBuilder_build(qb))
    /\ qtype' = "Query"
    /\ last_call' = Call("build", "")
    /\ UNCHANGED <<qb, appended, NotQueryVars>>

Build ==
    /\ OnQueryBuilder
    /\ query' = Some(QueryBuilder_build(qb))
    /\ qtype' = "Query"
    /\ last_call' = Call("build", "")
    /\ UNCHANGED <<qb, appended, NotQueryVars>>

InitQuery ==
    QueryIdle /\ EscapeIdle /\ ClassifyIdle /\ ModelIdle /\ NoteIdle /\ ClientIdle

NextQuery ==
    \/ New
    \/ \E s \in QueryLiterals : Text(s)
    \/ \E n \in QueryFieldNames : Field(n)
    \/ \E n \in QueryFieldNames : InField(n)
    \/ \E n \in QueryFieldNames : InFieldRef(n)
    \/ \E c \in QueryLiterals : Is(c)
    \/ \E c \in QueryLiterals : Contains(c)
    \/ \E t \in QueryLiterals : HasTag(t)
    \/ \E d \in QueryLiterals : InDeck(d)
    \/ \E d \in QueryLiterals : InDeckObj(Deck_new(1234, d))
    \/ \E st \in QueryCardStates : InState(st)
    \/ Not
    \/ And
    \/ Or
    \/ \E f \in QueryFlags : HasFlag(f)
    \/ \E n \in QueryNumbers : IntervalAtLeast(n)
    \/ \E n \in QueryNumbers : DueIn(n)
    \/ \E n \in QueryNumbers : RepsLessThan(n)
    \/ \E n \in QueryNumbers : AddedInLastNDays(n)
    \/ RatedToday
    \/ \E n \in QueryNumbers : RatedInLastNDays(n)
    \/ Build

SpecQuery == InitQuery /\ [][NextQuery]_vars

(***************************************************************************)
(* What the claims say of the escaping, stated position by position and    *)
(* independently of escape_special_chars.                                  *)
(***************************************************************************)
SpecialChars == {"\"", "*", "_", "\\", "(", ")", ":", "-"}

\* out is s with exactly one backslash before each special character:
\* pos[i] is where the i-th character of s stands in out, one place further
\* for each special character up to and including it; the place before a
\* special character holds a backslash, and out holds nothing else.
IsEscapeOf(out, s) ==
    LET n == Len(s)
        specials == {j \in 1..n : Char(s, j) \in SpecialChars}
        pos == [i \in 1..n |-> i + Cardinality({j \in specials : j <= i})]
        image == {pos[i] : i \in 1..n}
    IN  /\ Len(out) = n + Cardinality(specials)
        /\ \A i \in 1..n :
              /\ Char(out, pos[i]) = Char(s, i)
              /\ i \in specials => Char(out, pos[i] - 1) = "\\"
        /\ \A k \in (1..Len(out)) \ image :
              /\ Char(out, k) = "\\"
              /\ k + 1 \in {pos[i] : i \in specials}

\* C1: QueryBuilder::new().text(s).build() is s with exactly one backslash
\* inserted immediately before each character of the escape set, every other
\* character and the order unchanged; its length is len(s) plus the number of
\* special characters of s.
C1_EscapeInsertsBackslashes ==
    esc_out # None => IsEscapeOf(esc_out[1], esc_in)

\* a literal with a letter, a backslash and a minus sign has been escaped
C1_Witness ==
    /\ esc_in = "a\\-"
    /\ esc_out = Some("a\\\\\\-")

(***************************************************************************)
(* Claims about the builder chain                                          *)
(***************************************************************************)
FieldOps == {"field", "in_field", "in_field_ref"}
ContentOps == {"contains", "is"}
NoAppendOps == {"new", "not", "and", "build"} \cup FieldOps

Last(seq) == seq[Len(seq)]

\* this step pushed exactly one part and left the earlier parts alone
AppendedOne ==
    /\ Len(qb'.parts) = Len(qb.parts) + 1
    /\ SubSeq(qb'.parts, 1, Len(qb.parts)) = qb.parts

\* the "-" a pending negation puts before the part of this step
NegationPrefix == IF qb.negated THEN "-" ELSE ""

\* this step appended one part: prefix, unescaped, then the escaped literal
AppendedPrefixThenEscaped(prefix, literal) ==
    /\ AppendedOne
    /\ LET part == Last(qb'.parts)
           lead == NegationPrefix \o prefix
       IN  /\ Len(part) >= Len(lead)
           /\ SubSeq(part, 1, Len(lead)) = lead
           /\ IsEscapeOf(SubSeq(part, Len(lead) + 1, Len(part)), literal)

\* C2: text(s) appends escape(s), has_tag(t) appends "tag:" + escape(t), and
\* contains(c) or is(c) after field(n) appends n + ":" + escape(c), each as
\* exactly one part whose prefix, colon and field name are not escaped; is(c)
\* and contains(c) give the same builder.
C2_LiteralOpsAppendPrefixAndEscape ==
    /\ [][/\ last_call'.op = "text" => AppendedPrefixThenEscaped("", last_call'.arg)
          /\ last_call'.op = "has_tag"
                => AppendedPrefixThenEscaped("tag:", last_call'.arg)
          /\ last_call'.op \in ContentOps
                => /\ last_call.op \in FieldOps
                   /\ AppendedPrefixThenEscaped(last_call.arg \o ":", last_call'.arg)
         ]_query_vars
    /\ [][qtype' = "FieldQueryBuilder"
            => \A c \in QueryLiterals :
                  FieldQueryBuilder_is(qb', c) = FieldQueryBuilder_contains(qb', c)
         ]_query_vars

\* field("My_Field").contains("a*b") has appended My_Field:a\*b
C2_Witness ==
    /\ last_call = Call("contains", "a*b")
    /\ qb.parts = <<"tag:My Deck", "My_Field:a\\*b">>

\* C3: after field / in_field / in_field_ref only contains or is can be
\* called; build and every other operation are called only on the normal
\* builder; contains / is returns to the normal builder.  So each field call
\* is immediately followed by exactly one contains or is.
C3_FieldThenContent ==
    /\ [][qtype' = "FieldQueryBuilder" <=> last_call'.op \in FieldOps]_query_vars
    /\ [][/\ last_call.op \in FieldOps => last_call'.op \in ContentOps
          /\ last_call'.op \in ContentOps
                => last_call.op \in FieldOps /\ qtype' = "QueryBuilder"
          /\ last_call'.op \notin ContentOps \cup {"new"} => qtype = "QueryBuilder"
         ]_query_vars

\* a chain with a field call has reached build()
C3_Witness ==
    /\ last_call.op = "build"
    /\ query = Some("-Front:dog My_Field:a\\*b")

\* the builder a call returns when made on the normal builder b
ApplyCall(b, call) ==
    CASE call.op = "text" -> QueryBuilder_text(b, call.arg)
      [] call.op = "has_tag" -> QueryBuilder_has_tag(b, call.arg)
      [] call.op = "in_deck" -> QueryBuilder_in_deck(b, call.arg)
      [] call.op = "in_deck_obj" -> QueryBuilder_in_deck_obj(b, Deck_new(1234, call.arg))
      [] call.op = "in_state" -> QueryBuilder_in_state(b, call.arg)
      [] call.op = "or" -> QueryBuilder_or(b)
      [] call.op = "has_flag" -> QueryBuilder_has_flag(b, call.arg)
      [] call.op = "interval_at_least" -> QueryBuilder_interval_at_least(b, call.num)
      [] call.op = "due_in" -> QueryBuilder_due_in(b, call.num)
      [] call.op = "reps_less_than" -> QueryBuilder_reps_less_than(b, call.num)
      [] call.op = "added_in_last_n_days" -> QueryBuilder_added_in_last_n_days(b, call.num)
      [] call.op = "rated_today" -> QueryBuilder_rated_today(b)
      [] call.op = "rated_in_last_n_days" -> QueryBuilder_rated_in_last_n_days(b, call.num)
      [] call.op = "contains" -> FieldQueryBuilder_contains(b, call.arg)
      [] call.op = "is" -> FieldQueryBuilder_is(b, call.arg)

C11_OrAppendsOr ==
    [][last_call'.op = "or" => AppendedOne /\ Last(qb'.parts) = "or"]_query_vars

\* the total length of the first n parts
RECURSIVE SumLen(_, _)
SumLen(parts, n) == IF n = 0 THEN 0 ELSE SumLen(parts, n - 1) + Len(parts[n])

\* out is the parts in order with exactly one space between two neighbours
\* and nothing before the first or after the last: part i stands right
\* after the i - 1 parts and i - 1 spaces before it.
IsJoinOf(out, parts) ==
    LET n == Len(parts)
        start == [i \in 1..n |-> SumLen(parts, i - 1) + (i - 1)]
    IN  /\ Len(out) = SumLen(parts, n) + (IF n = 0 THEN 0 ELSE n - 1)
        /\ \A i \in 1..n :
              /\ SubSeq(out, start[i] + 1, start[i] + Len(parts[i])) = parts[i]
              /\ i > 1 => Char(out, start[i]) = " "

\* C12: build() returns the parts, in the order their operations were
\* called, joined by exactly one space with nothing before or after; with no
\* appending operation called it returns the empty string; the number of
\* parts is the number of appending operations called, and() and not()
\* appending none.
C12_BuildJoinsPartsInCallOrder ==
    [][/\ qtype' # "panic" => Len(qb'.parts) = appended'
       /\ query' # None
             => /\ IsJoinOf(query'[1], qb'.parts)
                /\ appended' = 0 => query'[1] = ""
       /\ last_call'.op \in AppendingOps
             => /\ AppendedOne
                /\ Last(qb'.parts) =
                      NegationPrefix
                         \o Last(ApplyCall([qb EXCEPT !.negated = FALSE], last_call').parts)
       /\ last_call'.op \in {"and", "not"} => qb'.parts = qb.parts
      ]_query_vars

\* two parts, the second appended after and().not(), have been built
C12_Witness ==
    /\ last_call.op = "build"
    /\ appended = 2
    /\ query = Some("My Deck -is:learn")

\* C16: in every built query the token "or" stands only between two terms,
\* never first, last or next to another "or", and a "-" is put only before
\* a term, never before "or".
C16_ValidBooleanComposition ==
    query # None
       => LET p == qb.parts
          IN  \A i \in 1..Len(p) :
                 /\ p[i] # "-or"
                 /\ p[i] = "or"
                       => /\ i > 1 /\ i < Len(p)
                          /\ p[i - 1] \notin {"or", "-or"}
                          /\ p[i + 1] \notin {"or", "-or"}

\* C20: and() leaves the builder as it is, its parts and its pending
\* negation included, in every state it is called in.
C20_AndIsNoOp ==
    [][last_call'.op = "and"
          => /\ qb' = qb
             /\ qtype' = qtype
             /\ query' = query
             /\ appended' = appended
      ]_query_vars

\* and() has been called on a builder with a part and a pending negation
C20_Witness ==
    /\ last_call.op = "and"
    /\ qb.parts = <<"dog">>
    /\ qb.negated

\* C29: a FieldQueryBuilder holds the name given to the field call that
\* made it, a QueryBuilder in the normal state holds none, so the unwrap of
\* contains / is does not panic, and the name it takes is the one given to
\* the field call just before it.
C29_PendingFieldName ==
    /\ [](/\ "panic" \notin DOMAIN qb
          /\ qtype = "FieldQueryBuilder"
                => /\ last_call.op \in FieldOps
                   /\ qb.current_field = Some(last_call.arg)
          /\ qtype = "QueryBuilder" => qb.current_field = None)
    /\ [][last_call'.op \in ContentOps
            => /\ qtype = "FieldQueryBuilder"
               /\ qb'.current_field = None
               /\ LET lead == NegationPrefix \o last_call.arg \o ":"
                  IN  /\ AppendedOne
                      /\ Len(Last(qb'.parts)) >= Len(lead)
                      /\ SubSeq(Last(qb'.parts), 1, Len(lead)) = lead
         ]_query_vars

\* a second field call of a chain: its name is pending, the first is used
C29_Witness ==
    /\ qtype = "FieldQueryBuilder"
    /\ last_call = Call("in_field_ref", "My_Field")
    /\ qb.current_field = Some("My_Field")
    /\ qb.parts = <<"Front:dog">>

(***************************************************************************)
(* Chains of in_state, has_flag and not over every card state and flag     *)
(***************************************************************************)
NextToken ==
    \/ New
    \/ \E st \in CardStates : InState(st)
    \/ \E f \in Flags : HasFlag(f)
    \/ Not
    \/ Build

SpecToken == InitQuery /\ [][NextToken]_vars

\* the card-state table of the specification
StateToken ==
    [Due |-> "is:due", New |-> "is:new", Learning |-> "is:learn",
     Review |-> "is:review", Suspended |-> "is:suspended", Buried |-> "is:buried",
     BuriedSibling |-> "is:buried-sibling", BuriedManual |-> "is:buried-manually"]

\* the flags in the order of their ordinals, and the digit of each ordinal
FlagOrder == <<"Red", "Orange", "Green", "Blue", "Pink", "Turquoise", "Purple">>
Digits == <<"1", "2", "3", "4", "5", "6", "7">>

FlagToken(flag) ==
    "flag:" \o Digits[CHOOSE i \in 1..Len(FlagOrder) : FlagOrder[i] = flag]

\* C21: in_state(s) appends one part that is the token of s in the
\* card-state table, and has_flag(f) one part "flag:N", N the place of f in
\* Red, Orange, Green, Blue, Pink, Turquoise, Purple; the token is not
\* escaped (a pending negation puts its "-" before it, as before every
\* part); on every builder reached, distinct states append distinct parts
\* and so do distinct flags.
C21_StateAndFlagTokens ==
    /\ [][/\ last_call'.op = "in_state"
             => /\ AppendedOne
                /\ Last(qb'.parts) = NegationPrefix \o StateToken[last_call'.arg]
          /\ last_call'.op = "has_flag"
             => /\ AppendedOne
                /\ Last(qb'.parts) = NegationPrefix \o FlagToken(last_call'.arg)
         ]_query_vars
    /\ [][qtype' = "QueryBuilder"
            => /\ \A s, t \in CardStates :
                    s # t => QueryBuilder_in_state(qb', s) # QueryBuilder_in_state(qb', t)
               /\ \A f, g \in Flags :
                    f # g => QueryBuilder_has_flag(qb', f) # QueryBuilder_has_flag(qb', g)
         ]_query_vars

\* in_state(BuriedSibling) then has_flag(Turquoise) have appended their tokens
C21_Witness ==
    /\ last_call = Call("has_flag", "Turquoise")
    /\ qb.parts = <<"is:buried-sibling", "flag:6">>

(***************************************************************************)
(* The error classifier applied to an error string                         *)
(***************************************************************************)
InitClassify ==
    /\ error_msg \in ErrorInputs
    /\ classified = None
    /\ QueryIdle
    /\ EscapeIdle
    /\ ModelIdle
    /\ NoteIdle
    /\ ClientIdle

Classify ==
    /\ classified = None
    /\ classified' = Some(parse_anki_connect_error(error_msg))
    /\ UNCHANGED <<error_msg, query_vars, escape_vars, model_vars, note_vars, client_vars>>

NextClassify == Classify

SpecClassify == InitClassify /\ [][NextClassify]_vars

\* The table of the specification: six exact messages, four prefixes.
ExactMessages ==
    {"cannot create note because it is a duplicate",
     "cannot create note because it is empty",
     "You must provide a \"data\", \"path\", or \"url\" field.",
     "Model name already exists",
     "The field values you have provided would make an empty question on all cards.",
     "unsupported action"}

PrefixTable ==
    {[prefix |-> "deck was not found: ", variant |-> "DeckNotFound"],
     [prefix |-> "model was not found: ", variant |-> "ModelNotFound"],
     [prefix |-> "invalid columnId: ", variant |-> "InvalidColumnId"],
     [prefix |-> "invalid card order: ", variant |-> "InvalidCardOrder"]}

Variants ==
    {"UnsupportedAction", "EmptyQuestion", "ModelNotFound", "DeckNotFound",
     "DuplicateNote", "EmptyNote", "MissingMediaField", "ModelNameExists",
     "InvalidColumnId", "InvalidCardOrder", "Other"}

HasPrefix(s, p) == \E n \in 0..Len(s) : SubSeq(s, 1, n) = p

MatchesTable(s) ==
    \/ s \in ExactMessages
    \/ \E row \in PrefixTable : HasPrefix(s, row.prefix)

\* C8: the classifier returns exactly one AnkiConnectError for every string,
\* and it returns Other(s), carrying s unmodified, exactly when s equals none
\* of the six exact messages and starts with none of the four prefixes.
C8_ClassifierTotalAndOtherIffUnmatched ==
    classified # None
       => /\ classified[1].variant \in Variants
          /\ classified[1].variant = "Other" <=> ~MatchesTable(error_msg)
          /\ classified[1].variant = "Other" => classified[1].arg = Some(error_msg)

\* an exact message followed by more text is classified Other, unmodified
C8_Witness ==
    /\ error_msg = "unsupported action "
    /\ classified = Some(AnkiConnectError("Other", Some("unsupported action ")))

\* C9: a table prefix followed by name is classified as the matching variant
\* carrying exactly name.
C9_PrefixCarriesExactName ==
    classified # None
       => \A row \in PrefixTable :
             HasPrefix(error_msg, row.prefix)
                => classified[1]
                     = AnkiConnectError(row.variant,
                          Some(SubSeq(error_msg, Len(row.prefix) + 1, Len(error_msg))))

\* the rows in reverse, and rotated to start at each row: every two rows
\* are tested in both relative orders
RowOrders ==
    LET n == Len(ClassifierRows)
    IN  {[i \in 1..n |-> ClassifierRows[n + 1 - i]]}
           \cup {[i \in 1..n |-> ClassifierRows[((i + k - 1) % n) + 1]] : k \in 0..(n - 1)}

\* C25: no string matches more than one row of the classifier's table: no
\* exact message starts with a prefix, no prefix starts with another; so
\* every order of testing the rows classifies a string as the code does.
C25_RowsAreExclusive ==
    classified # None
       => /\ Cardinality({i \in 1..Len(ClassifierRows) :
                            RowMatches(ClassifierRows[i], error_msg)}) <= 1
          /\ \A rows \in RowOrders : parse_in_order(error_msg, rows, 1) = classified[1]
          /\ \A i, j \in 1..Len(ClassifierRows) :
                (i # j /\ ClassifierRows[j].test = "starts_with")
                   => ~HasPrefix(ClassifierRows[i].pattern, ClassifierRows[j].pattern)

\* a string that starts with one prefix and holds another further on was
\* classified by the first
C25_Witness ==
    /\ error_msg = "model was not found: deck was not found: "
    /\ classified = Some(AnkiConnectError("ModelNotFound", Some("deck was not found:")))

(***************************************************************************)
(* Model::new applied to a vector of fields                                *)
(***************************************************************************)
ModelFields == {Field_new(name, ord) : name \in ModelFieldNames, ord \in ModelOrds}

InitModel ==
    /\ model_in \in SeqsUpTo(ModelFields, MaxFields)
    /\ model_result = None
    /\ front_result = None
    /\ back_result = None
    /\ QueryIdle
    /\ EscapeIdle
    /\ ClassifyIdle
    /\ NoteIdle
    /\ ClientIdle

ModelNew ==
    /\ model_result = None
    /\ model_result' = Some(Model_new(1, "Basic", model_in))
    /\ UNCHANGED <<model_in, front_result, back_result,
                   query_vars, escape_vars, classify_vars, note_vars, client_vars>>

\* the Model that Model::new returned
HasModel == model_result # None /\ model_result[1].ok

FrontField ==
    /\ HasModel /\ front_result = None
    /\ front_result' = Some(Model_front_field(model_result[1].value))
    /\ UNCHANGED <<model_in, model_result, back_result,
                   query_vars, escape_vars, classify_vars, note_vars, client_vars>>

BackField ==
    /\ HasModel /\ back_result = None
    /\ back_result' = Some(Model_back_field(model_result[1].value))
    /\ UNCHANGED <<model_in, model_result, front_result,
                   query_vars, escape_vars, classify_vars, note_vars, client_vars>>

NextModel == ModelNew \/ FrontField \/ BackField

SpecModel == InitModel /\ [][NextModel]_vars

\* C7: Model::new fails with a validation error exactly when fields is empty
\* or two fields have the same name, compared exactly; so every Model has at
\* least one field and pairwise distinct field names.
C7_ModelNewValidates ==
    model_result # None
       => LET r == model_result[1]
              twice == \E i, j \in 1..Len(model_in) :
                          i # j /\ model_in[i].name = model_in[j].name
          IN  /\ ~r.ok <=> (Len(model_in) = 0 \/ twice)
              /\ ~r.ok => r.error.variant = "ValidationError"
              /\ r.ok => /\ r.value.fields = model_in
                         /\ Len(r.value.fields) >= 1
                         /\ \A i, j \in 1..Len(r.value.fields) :
                               i # j => r.value.fields[i].name # r.value.fields[j].name

\* a vector whose first and third fields share a name was rejected
C7_Witness ==
    /\ model_in = <<Field_new("Front", 0), Field_new("front", 1), Field_new("Front", 1)>>
    /\ model_result = Some(Err(AnkiError_ValidationError("Duplicate field name: Front")))

\* name, ignoring case, contains one of the words
ContainsIgnoringCase(name, words) ==
    \E w \in words :
       \E i \in 1..(Len(name) - Len(w) + 1) :
          to_ascii_lowercase(SubSeq(name, i, i + Len(w) - 1)) = w

\* result is the first field of fields, in order, whose name, ignoring case,
\* contains one of the words, or None when there is none
IsFirstContaining(result, fields, words) ==
    LET hits == {i \in 1..Len(fields) : ContainsIgnoringCase(fields[i].name, words)}
    IN  IF hits = {} THEN result = None
        ELSE /\ result # None
             /\ \E i \in hits : result[1] = fields[i] /\ \A j \in hits : i <= j

\* C19: is_front holds of a field iff its name, ignoring case, contains
\* "front" or "question", is_back iff it contains "back" or "answer";
\* front_field and back_field return the first such field in the model's
\* field order, or None when there is none.
C19_FrontBackIgnoreCase ==
    HasModel
       => LET fields == model_result[1].value.fields
          IN  /\ \A i \in 1..Len(fields) :
                    /\ Field_is_front(fields[i])
                          <=> ContainsIgnoringCase(fields[i].name, {"front", "question"})
                    /\ Field_is_back(fields[i])
                          <=> ContainsIgnoringCase(fields[i].name, {"back", "answer"})
              /\ front_result # None
                    => IsFirstContaining(front_result[1], fields, {"front", "question"})
              /\ back_result # None
                    => IsFirstContaining(back_result[1], fields, {"back", "answer"})

(***************************************************************************)
(* The note builder: one action per method of NoteBuilder.  A FieldRef is  *)
(* obtained from Model::field_ref of any Model that Model::new returned.   *)
(***************************************************************************)
\* ModelClient::get_all numbers the fields in their order
NoteFieldVecs ==
    {[i \in 1..Len(names) |-> Field_new(names[i], i - 1)] : names \in NoteModelFieldNames}

NoteModels ==
    LET results == {Model_new(1, "Basic", fields) : fields \in NoteFieldVecs}
    IN  {r.value : r \in {x \in results : x.ok}}

FieldRefs ==
    LET refs == {Model_field_ref(m, name) : m \in NoteModels, name \in NoteFieldNames}
    IN  {r[1] : r \in {x \in refs : x # None}}

NoteSources == {MediaSource_Path("/tmp/a.mp3")}

MediaTypes == {"Audio", "Video", "Image"}

NotNoteVars == <<query_vars, escape_vars, classify_vars, model_vars, client_vars, noteop_vars>>

Building == nb # None /\ note_result = None
MayAttach == Len(nb[1].media) < MaxMedia

\* a builder method: the builder it returns, and the FieldRef it was handed
Built(b, field_ref) ==
    /\ nb' = Some(b)
    /\ foreign_ref' = (foreign_ref \/ field_ref.model # nb[1].model)
    /\ UNCHANGED <<note_result, tag_calls, NotNoteVars>>

\* the record of a with_field (raw = FALSE) or with_field_raw (raw = TRUE) call
Wrote(field_ref, content, raw) ==
    /\ overwrote' = (overwrote \/ FieldRef_name(field_ref) \in DOMAIN last_write)
    /\ last_write' = [k \in DOMAIN last_write \cup {FieldRef_name(field_ref)} |->
                         IF k = FieldRef_name(field_ref)
                         THEN [content |-> content, raw |-> raw]
                         ELSE last_write[k]]

NoteBuilderNew(model) ==
    /\ nb = None \/ note_result # None
    /\ nb' = Some(NoteBuilder_new(model))
    /\ foreign_ref' = FALSE
    /\ note_result' = None
    /\ last_write' = <<>>
    /\ overwrote' = FALSE
    /\ tag_calls' = <<>>
    /\ UNCHANGED NotNoteVars

WithField(field_ref, content) ==
    /\ Building
    /\ Built(NoteBuilder_with_field(nb[1], field_ref, content), field_ref)
    /\ Wrote(field_ref, content, FALSE)

WithFieldRaw(field_ref, content) ==
    /\ Building
    /\ Built(NoteBuilder_with_field_raw(nb[1], field_ref, content), field_ref)
    /\ Wrote(field_ref, content, TRUE)

WithTag(tag) ==
    /\ Building /\ Len(tag_calls) < MaxTagCalls
    /\ nb' = Some(NoteBuilder_with_tag(nb[1], tag))
    /\ tag_calls' = Append(tag_calls, tag)
    /\ UNCHANGED <<foreign_ref, note_result, last_write, overwrote, NotNoteVars>>

WithAudio(field_ref, source, filename) ==
    /\ Building /\ MayAttach
    /\ Built(NoteBuilder_with_audio(nb[1], field_ref, source, filename), field_ref)
    /\ UNCHANGED <<last_write, overwrote>>

WithImage(field_ref, source, filename) ==
    /\ Building /\ MayAttach
    /\ Built(NoteBuilder_with_image(nb[1], field_ref, source, filename), field_ref)
    /\ UNCHANGED <<last_write, overwrote>>

WithVideo(field_ref, source, filename) ==
    /\ Building /\ MayAttach
    /\ Built(NoteBuilder_with_video(nb[1], field_ref, source, filename), field_ref)
    /\ UNCHANGED <<last_write, overwrote>>

WithMedia(field_ref, media) ==
    /\ Building /\ MayAttach
    /\ Built(NoteBuilder_with_media(nb[1], field_ref, media), field_ref)
    /\ UNCHANGED <<last_write, overwrote>>

\* a build that refuses a builder with no field value
NoteBuild_requiring_a_field ==
    /\ Building
    /\ \E result \in NoteBuilder_build(nb[1]) :
          note_result' = Some(IF DOMAIN nb[1].field_values = {}
                              THEN Err([variant |-> "MissingField", arg |-> None])
                              ELSE result)
    /\ UNCHANGED <<nb, foreign_ref, last_write, overwrote, tag_calls, NotNoteVars>>

NoteBuild ==
    /\ Building
    /\ \E result \in NoteBuilder_build(nb[1]) : note_result' = Some(result)
    /\ UNCHANGED <<nb, foreign_ref, last_write, overwrote, tag_calls, NotNoteVars>>

InitNote ==
    NoteIdle /\ QueryIdle /\ EscapeIdle /\ ClassifyIdle /\ ModelIdle /\ ClientIdle

NextNote ==
    \/ \E m \in NoteModels : NoteBuilderNew(m)
    \/ \E r \in FieldRefs, c \in NoteContents : WithField(r, c)
    \/ \E r \in FieldRefs, c \in NoteContents : WithFieldRaw(r, c)
    \/ \E tag \in NoteTags : WithTag(tag)
    \/ \E r \in FieldRefs, s \in NoteSources, f \in NoteFilenames : WithAudio(r, s, f)
    \/ \E r \in FieldRefs, s \in NoteSources, f \in NoteFilenames : WithImage(r, s, f)
    \/ \E r \in FieldRefs, s \in NoteSources, f \in NoteFilenames : WithVideo(r, s, f)
    \/ \E r \in FieldRefs, s \in NoteSources, f \in NoteFilenames, ty \in MediaTypes :
          WithMedia(r, Media_new(s, f, ty))
    \/ NoteBuild

SpecNote == InitNote /\ [][NextNote]_vars

\* The field values and the tags of a builder: the same methods, media left
\* out, with contents that hold every character the escaping is about.
NextNoteContent ==
    \/ \E m \in NoteModels : NoteBuilderNew(m)
    \/ \E r \in FieldRefs, c \in NoteFieldContents : WithField(r, c)
    \/ \E r \in FieldRefs, c \in NoteFieldContents : WithFieldRaw(r, c)
    \/ \E tag \in NoteTags : WithTag(tag)
    \/ NoteBuild

SpecNoteContent == InitNote /\ [][NextNoteContent]_vars

\* the names of the fields of a model
FieldNamesOf(model) == {model.fields[i].name : i \in 1..Len(model.fields)}

\* the field names a builder holds, as field values or as media targets
StoredNames(b) == DOMAIN b.field_values \cup {b.media[i].field : i \in 1..Len(b.media)}

\* C5: build() returns Err(UnknownField(name)), name being a stored name that
\* is no field of the model, and no Note, whenever a stored field value or a
\* media attachment names a field that is not of the builder's model; it
\* returns Ok(note) only when every stored name is a field of the model.
C5_BuildRejectsUnknownFields ==
    note_result # None
       => LET r == note_result[1]
              unknown == StoredNames(nb[1]) \ FieldNamesOf(nb[1].model)
          IN  /\ ~r.ok <=> unknown # {}
              /\ ~r.ok => /\ r.error.variant = "UnknownField"
                          /\ r.error.arg[1] \in unknown
                          /\ "value" \notin DOMAIN r

\* a builder whose only unknown name is a media target was refused
C5_Witness ==
    /\ note_result = Some(Err(NoteError_UnknownField("Extra")))
    /\ DOMAIN nb[1].field_values = {"Front"}
    /\ Len(nb[1].media) = 1
    /\ FieldNamesOf(nb[1].model) = {"Front", "Back"}
    /\ foreign_ref

\* C6, as stated: whatever FieldRefs the with_ methods are handed, every
\* stored field name is a field of the builder's model and build() does not
\* fail.
C6_AnyFieldRefIsOfTheModel ==
    /\ nb # None => StoredNames(nb[1]) \subseteq FieldNamesOf(nb[1].model)
    /\ note_result # None => note_result[1].ok

\* C6, amended: when every FieldRef handed to the with_ methods was obtained
\* from a Model equal to the builder's model, every stored field name is a
\* field of the builder's model and build() does not fail.
C6_OwnFieldRefIsOfTheModel ==
    (nb # None /\ ~foreign_ref)
       => /\ StoredNames(nb[1]) \subseteq FieldNamesOf(nb[1].model)
          /\ note_result # None => note_result[1].ok

\* a builder handed only FieldRefs of its own model, for a field value and a
\* media attachment, was built
C6_Witness ==
    /\ nb # None /\ ~foreign_ref
    /\ note_result # None /\ note_result[1].ok
    /\ DOMAIN nb[1].field_values = {"Front", "Back"}
    /\ Len(nb[1].media) = 1

(***************************************************************************)
(* Claims about the field values and the tags of a note builder            *)
(***************************************************************************)
\* the HTML entity of a character
HtmlEntity(c) ==
    CASE c = "<" -> "&lt;"
      [] c = ">" -> "&gt;"
      [] c = "&" -> "&amp;"
      [] c = "\"" -> "&quot;"

\* content with each of its characters that is in chars replaced by its
\* entity and every other character kept, built from the last character back
RECURSIVE ReplacedByEntities(_, _)
ReplacedByEntities(content, chars) ==
    IF content = "" THEN ""
    ELSE LET n == Len(content)
             c == Char(content, n)
         IN  ReplacedByEntities(SubSeq(content, 1, n - 1), chars)
                \o (IF c \in chars THEN HtmlEntity(c) ELSE c)

\* every field last written by with_field holds, under its name, the
\* content of that call with the characters of chars replaced
StoresEscaped(chars) ==
    nb # None
       => \A k \in DOMAIN last_write :
             ~last_write[k].raw
                => /\ k \in DOMAIN nb[1].field_values
                   /\ nb[1].field_values[k] =
                         ReplacedByEntities(last_write[k].content, chars)

\* C13, as stated: with_field stores under the field's name the content with
\* every < > & and double quote replaced by its HTML entity, the other
\* characters unchanged.
C13_WithFieldEscapesQuoteToo == StoresEscaped({"<", ">", "&", "\""})

\* C13, amended: with_field stores under the field's name the content with
\* every < > and & replaced by its HTML entity, every other character, the
\* double quote included, unchanged.
C13_WithFieldEscapesText == StoresEscaped({"<", ">", "&"})

\* with_field was handed a content with a double quote and an ampersand
C13_Witness ==
    /\ nb # None
    /\ "Front" \in DOMAIN last_write
    /\ last_write["Front"] = [content |-> "\"&", raw |-> FALSE]
    /\ nb[1].field_values["Front"] = "\"&amp;"

\* the field map the calls recorded in last_write leave
LastWritten ==
    [k \in DOMAIN last_write |->
        IF last_write[k].raw THEN last_write[k].content
        ELSE ReplacedByEntities(last_write[k].content, {"<", ">", "&"})]

\* C14: after any sequence of with_field and with_field_raw calls the
\* builder, and the note built from it, map each field name written to the
\* content of the last call for that name, escaped if the call was with_field
\* and verbatim if it was with_field_raw, with one entry per name written
\* and none for a name never written.
C14_LastWriteWins ==
    nb # None
       => /\ DOMAIN nb[1].field_values = DOMAIN last_write
          /\ \A k \in DOMAIN last_write : nb[1].field_values[k] = LastWritten[k]
          /\ (note_result # None /\ note_result[1].ok)
                => /\ DOMAIN note_result[1].value.field_values = DOMAIN last_write
                   /\ \A k \in DOMAIN last_write :
                         note_result[1].value.field_values[k] = LastWritten[k]

\* a note was built after a field was written more than once: Front last by
\* with_field_raw, Back last by with_field
C14_Witness ==
    /\ overwrote
    /\ note_result # None /\ note_result[1].ok
    /\ DOMAIN last_write = {"Front", "Back"}
    /\ last_write["Front"] = [content |-> "<a>", raw |-> TRUE]
    /\ last_write["Back"] = [content |-> "<a>", raw |-> FALSE]
    /\ note_result[1].value.field_values["Front"] = "<a>"
    /\ note_result[1].value.field_values["Back"] = "&lt;a&gt;"

\* the distinct tags passed to with_tag
TagsPassed == {tag_calls[i] : i \in 1..Len(tag_calls)}

\* C15: the tags of the builder, and of the note built from it, are the set
\* of distinct tags passed to with_tag, whatever the order and the number of
\* times each was passed; a with_tag call with a tag already present leaves
\* the builder as it was.
C15_TagsAreTheDistinctTagsPassed ==
    [][/\ nb' # None
             => /\ nb'[1].tags = TagsPassed'
                /\ (note_result' # None /\ note_result'[1].ok)
                      => note_result'[1].value.tags = TagsPassed'
       /\ (Len(tag_calls') = Len(tag_calls) + 1 /\ Last(tag_calls') \in nb[1].tags)
             => nb' = nb
      ]_note_vars

\* the same tag was passed twice and the note built holds it once
C15_Witness ==
    /\ tag_calls = <<"t1", "t1">>
    /\ note_result # None /\ note_result[1].ok
    /\ note_result[1].value.tags = {"t1"}

(***************************************************************************)
(* The resource clients.  A method that sends one request is one step, the *)
(* transport's answer being its input; get_all is one step for its first   *)
(* request and one for each pass of its loop.  A method is called when no  *)
(* other is under way.                                                     *)
(***************************************************************************)
NotClientVars == <<query_vars, escape_vars, classify_vars, model_vars, note_vars>>

ClientReady == client_call.op = "none" \/ client_result # None

\* a method that returns within the step: what it sent and what it returned
Called(call, outcome, response) ==
    /\ client_call' = call
    /\ sent' = outcome.sent
    /\ answers' = IF outcome.sent = <<>> THEN <<>> ELSE <<response>>
    /\ client_result' = Some(outcome.result)
    /\ pending' = <<>>
    /\ models' = <<>>
    /\ UNCHANGED NotClientVars

(***************************************************************************)
(* Deck queries: in_deck and in_deck_obj on the builder, and               *)
(* DeckClient::get_cards_in_deck, which builds its query with in_deck      *)
(***************************************************************************)
GetCardsInDeck(deck_name, response) ==
    /\ ClientReady
    /\ client_call' = [op |-> "get_cards_in_deck", arg |-> deck_name]
    /\ sent' = <<DeckClient_get_cards_in_deck_request(deck_name)>>
    /\ answers' = <<response>>
    /\ client_result' = Some(DeckClient_get_cards_in_deck(deck_name, response))
    /\ UNCHANGED <<pending, models>>
    /\ UNCHANGED <<query_vars, escape_vars, classify_vars, model_vars, note_vars>>

InitDeck ==
    QueryIdle /\ EscapeIdle /\ ClassifyIdle /\ ModelIdle /\ NoteIdle /\ ClientIdle

NextDeck ==
    \/ New
    \/ \E d \in DeckNames : InDeck(d)
    \/ \E d \in DeckNames, id \in DeckIds : InDeckObj(Deck_new(id, d))
    \/ Not
    \/ Build
    \/ \E d \in DeckNames, response \in FindCardsResponses : GetCardsInDeck(d, response)

SpecDeck == InitDeck /\ [][NextDeck]_vars

\* part is "deck:" + escape(name), the escaped name between double quotes
\* when name contains a space
IsDeckPartOf(part, name) ==
    LET spaced == \E i \in 1..Len(name) : Char(name, i) = " "
        lead == IF spaced THEN "deck:\"" ELSE "deck:"
        tail == IF spaced THEN "\"" ELSE ""
    IN  /\ Len(part) >= Len(lead) + Len(tail)
        /\ SubSeq(part, 1, Len(lead)) = lead
        /\ SubSeq(part, Len(part) - Len(tail) + 1, Len(part)) = tail
        /\ IsEscapeOf(SubSeq(part, Len(lead) + 1, Len(part) - Len(tail)), name)

\* C10: in_deck(name) and in_deck_obj(deck) append exactly one part,
\* "deck:" + escape(name), with the escaped name between double quotes when
\* name contains a space; get_cards_in_deck(name) sends that part as the
\* query of its one findCards request.
C10_DeckPart ==
    /\ [][last_call'.op \in {"in_deck", "in_deck_obj"}
            => /\ AppendedOne
               /\ \E part \in {SubSeq(Last(qb'.parts), Len(NegationPrefix) + 1,
                                      Len(Last(qb'.parts)))} :
                     /\ Last(qb'.parts) = NegationPrefix \o part
                     /\ IsDeckPartOf(part, last_call'.arg)
         ]_query_vars
    /\ [][client_call'.op = "get_cards_in_deck"
            => /\ Len(sent') = 1
               /\ sent'[1].action = "findCards"
               /\ IsDeckPartOf(sent'[1].params[1].query, client_call'.arg)
         ]_client_vars

\* get_cards_in_deck("Japanese::Vocabulary") sent deck:Japanese\:\:Vocabulary
\* after in_deck_obj had appended the same part, and a part for "My Deck"
C10_Witness ==
    /\ client_call = [op |-> "get_cards_in_deck", arg |-> "Japanese::Vocabulary"]
    /\ sent[1].params[1].query = "deck:Japanese\\:\\:Vocabulary"
    /\ last_call = Call("in_deck", "My Deck")
    /\ qb.parts = <<"deck:Japanese\\:\\:Vocabulary", "deck:\"My Deck\"">>

(***************************************************************************)
(* The methods of DeckClient, MediaClient and ModelClient                  *)
(***************************************************************************)
Create(name, response) ==
    /\ ClientReady
    /\ Called([op |-> "create", name |-> name], DeckClient_create(name, response), response)

StoreFile(source, filename, overwrite, response) ==
    /\ ClientReady
    /\ Called([op |-> "store_file", source |-> source, filename |-> filename,
               overwrite |-> overwrite],
              MediaClient_store_file(source, filename, overwrite, response), response)

StoreFromUrl(url, filename, overwrite, response) ==
    /\ ClientReady
    /\ Called([op |-> "store_from_url", url |-> url, filename |-> filename,
               overwrite |-> overwrite],
              MediaClient_store_from_url(url, filename, overwrite, response), response)

StoreFromBase64(data, filename, overwrite, response) ==
    /\ ClientReady
    /\ Called([op |-> "store_from_base64", data |-> data, filename |-> filename,
               overwrite |-> overwrite],
              MediaClient_store_from_base64(data, filename, overwrite, response), response)

RetrieveFile(filename, response) ==
    /\ ClientReady
    /\ Called([op |-> "retrieve_file", filename |-> filename],
              MediaClient_retrieve_file(filename, response), response)

DeleteFile(filename, response) ==
    /\ ClientReady
    /\ Called([op |-> "delete_file", filename |-> filename],
              MediaClient_delete_file(filename, response), response)

\* get_all up to its loop: the modelNamesAndIds request and its `?`
GetAllStart(response) ==
    /\ ClientReady
    /\ client_call' = [op |-> "get_all"]
    /\ sent' = <<AnkiConnectRequest("modelNamesAndIds", None)>>
    /\ answers' = <<response>>
    /\ models' = <<>>
    /\ LET result == ModelClient_get_all_names(response)
       IN  IF ~result.ok
           THEN pending' = <<>> /\ client_result' = Some(result)
           ELSE \E order \in HashMap_into_iter(result.value) :
                   /\ pending' = order
                   /\ client_result' = IF order = <<>> THEN Some(Ok(<<>>)) ELSE None
    /\ UNCHANGED NotClientVars

\* one pass of the loop of get_all, and Ok(models) after the last
GetAllNext(response) ==
    /\ client_call.op = "get_all" /\ client_result = None
    /\ LET entry == Head(pending)
           pass == ModelClient_get_all_body(entry, models, response)
       IN  /\ sent' = Append(sent, ModelClient_get_fields_for_name_request(entry.name))
           /\ answers' = Append(answers, response)
           /\ IF pass.return # None
              THEN /\ client_result' = pass.return
                   /\ pending' = <<>>
                   /\ models' = <<>>
              ELSE /\ models' = pass.models
                   /\ pending' = Tail(pending)
                   /\ client_result' =
                         IF Tail(pending) = <<>> THEN Some(Ok(pass.models)) ELSE None
    /\ UNCHANGED <<client_call, NotClientVars>>

InitClient ==
    QueryIdle /\ EscapeIdle /\ ClassifyIdle /\ ModelIdle /\ NoteIdle /\ ClientIdle

NextClient ==
    \/ \E name \in ClientDeckNames, response \in SimpleResponses : Create(name, response)
    \/ \E source \in {MediaSource_Path("/tmp/a.mp3"), MediaSource_Url(""),
                       MediaSource_Base64("QUJD")},
          filename \in ClientFilenames, overwrite \in BOOLEAN,
          response \in SimpleResponses :
          StoreFile(source, filename, overwrite, response)
    \/ \E url \in ClientUrls, filename \in ClientFilenames, overwrite \in BOOLEAN,
          response \in SimpleResponses :
          StoreFromUrl(url, filename, overwrite, response)
    \/ \E data \in ClientData, filename \in ClientFilenames, overwrite \in BOOLEAN,
          response \in SimpleResponses :
          StoreFromBase64(data, filename, overwrite, response)
    \/ \E filename \in ClientFilenames, response \in SimpleResponses :
          RetrieveFile(filename, response)
    \/ \E filename \in ClientFilenames, response \in SimpleResponses :
          DeleteFile(filename, response)
    \/ \E d \in DeckNames, response \in FindCardsResponses : GetCardsInDeck(d, response)
    \/ \E response \in NamesResponses : GetAllStart(response)
    \/ \E response \in FieldsResponses : GetAllNext(response)

SpecClient == InitClient /\ [][NextClient]_vars

\* the call was handed an empty required input
EmptyRequiredInput ==
    \/ client_call.op = "create" /\ client_call.name = ""
    \/ client_call.op \in {"store_file", "retrieve_file", "delete_file"}
          /\ client_call.filename = ""
    \/ client_call.op = "store_from_url" /\ client_call.url = ""
    \/ client_call.op = "store_from_base64" /\ client_call.data = ""

\* C17: create with an empty name, store_file, retrieve_file and delete_file
\* with an empty filename, store_from_url with an empty URL and
\* store_from_base64 with empty data return a ValidationError and hand no
\* request to the transport.
C17_ConstructionErrorsSendNothing ==
    EmptyRequiredInput
       => /\ sent = <<>>
          /\ client_result # None
          /\ ~client_result[1].ok
          /\ client_result[1].error.variant = "ValidationError"

\* store_from_base64 was handed empty data and a filename
C17_Witness ==
    /\ client_call = [op |-> "store_from_base64", data |-> "", filename |-> "a.mp3",
                      overwrite |-> TRUE]
    /\ sent = <<>>
    /\ client_result = Some(Err(AnkiError_ValidationError("Base64 data cannot be empty")))

\* the transport's answer is a failure of the request: no HTTP answer, a
\* body that does not decode, an error string, or neither result nor error
\* where a result is expected
Failed(answer) ==
    \/ answer.kind \in {"http_error", "bad_json"}
    \/ answer.kind = "json" /\ answer.error # None
    \/ answer.kind = "json" /\ answer.error = None /\ answer.result = None
          /\ client_call.op # "delete_file"
    \/ answer.kind = "json" /\ answer.result # None /\ client_call.op = "delete_file"

\* the variant of the AnkiError a failed answer is reported as
FailureVariant(answer) ==
    CASE answer.kind = "http_error" -> "HttpError"
      [] answer.kind = "bad_json" -> "JsonError"
      [] answer.kind = "json" /\ answer.result # None /\ client_call.op = "delete_file"
            -> "JsonError"
      [] OTHER -> "AnkiConnectError"

\* the field names answered are no fields of a Model: none, or one twice
Rejected(answer) ==
    /\ ~Failed(answer)
    /\ LET names == answer.result[1]
       IN  \/ Len(names) = 0
           \/ \E i, j \in 1..Len(names) : i # j /\ names[i] = names[j]

Send(expects_unit, response) ==
    /\ ClientReady
    /\ Called([op |-> "send", expects_unit |-> expects_unit],
              [sent |-> <<AnkiConnectRequest("version", None)>>,
               result |-> HttpRequestSender_send(expects_unit, response)],
              response)

DeleteNotes(note_ids, response) ==
    /\ ClientReady
    /\ Called([op |-> "delete_notes", note_ids |-> note_ids],
              CardClient_delete_notes(note_ids, response), response)

Delete(deck_name, cards_too, response) ==
    /\ ClientReady
    /\ Called([op |-> "delete", deck_name |-> deck_name, cards_too |-> cards_too],
              DeckClient_delete(deck_name, cards_too, response), response)

NextSend ==
    \/ \E expects_unit \in BOOLEAN, response \in SendResponses :
          Send(expects_unit, response)
    \/ \E response \in SendResponses : DeleteNotes(<<1234>>, response)
    \/ \E cards_too \in BOOLEAN, response \in SendResponses :
          Delete("Default", cards_too, response)
    \/ \E response \in SendResponses : DeleteFile("a.mp3", response)

SpecSend == InitClient /\ [][NextSend]_vars

\* the caller expects the unit type
ExpectsUnit ==
    \/ client_call.op \in {"delete_notes", "delete", "delete_file"}
    \/ client_call.op = "send" /\ client_call.expects_unit

\* the body decoded as a response for the expected type
Decoded(answer) ==
    /\ answer.kind = "json"
    /\ ExpectsUnit => answer.result = None

\* C22: for a decoded response, a non-null error gives
\* Err(AnkiConnectError) of the classified error string, the result being
\* null or not; otherwise a non-null result gives Ok of it; and with both
\* null the caller that expects () gets Ok(()) and every other caller
\* Err(AnkiConnectError(Other(..))).
C22_SendMapsTheResponse ==
    (client_result # None /\ Len(answers) = 1 /\ Decoded(answers[1]))
       => LET answer == answers[1]
              returned == client_result[1]
          IN  /\ answer.error # None
                    => /\ ~returned.ok
                       /\ returned.error.variant = "AnkiConnectError"
                       /\ returned.error.error = parse_anki_connect_error(answer.error[1])
              /\ (answer.error = None /\ answer.result # None)
                    => returned.ok /\ returned.value = answer.result[1]
              /\ (answer.error = None /\ answer.result = None /\ ExpectsUnit)
                    => returned.ok /\ returned.value = "()"
              /\ (answer.error = None /\ answer.result = None /\ ~ExpectsUnit)
                    => /\ ~returned.ok
                       /\ returned.error.variant = "AnkiConnectError"
                       /\ returned.error.error.variant = "Other"

\* a response with a result and an error was answered and the error returned
C22_Witness ==
    /\ client_call = [op |-> "send", expects_unit |-> FALSE]
    /\ answers = <<[kind |-> "json", result |-> Some(1234),
                    error |-> Some("deck was not found: A")]>>
    /\ client_result =
          Some(Err(AnkiError_AnkiConnectError(AnkiConnectError("DeckNotFound", Some("A")))))

(***************************************************************************)
(* CardClient::add_note, handed a Note that Note::new returned             *)
(***************************************************************************)
AddNoteModel == Model_new(1, "Basic", <<Field_new("Front", 0), Field_new("Back", 1)>>).value

AddNoteSources ==
    {MediaSource_Path("/tmp/a.mp3"), MediaSource_Url("http://x/a.mp3"),
     MediaSource_Base64("QUJD")}

AddNoteMedia ==
    {FieldMedia(Media_new(source, "a.mp3", type), field) :
        source \in AddNoteSources, type \in MediaTypes, field \in {"Front", "Back"}}

\* the notes Note::new returns for the model, two tags and up to MaxAttach
\* attachments
AddNoteNotes ==
    LET results == UNION {Note_new(AddNoteModel, HashMap_insert(HashMap_new, "Front", "dog"),
                                   tags, media) :
                             tags \in {{"t1", "t2"}},
                             media \in SeqsUpTo(AddNoteMedia, MaxAttach)}
    IN  {r \in results : r.ok}

AddNote(deck, allow_duplicate, duplicate_scope, response) ==
    /\ client_call.op = "none"
    /\ note_result # None
    /\ \E tags \in HashSet_iter(note_result[1].value.tags) :
          Called([op |-> "add_note", deck |-> deck, allow_duplicate |-> allow_duplicate],
                 CardClient_add_note(deck, note_result[1].value, allow_duplicate,
                                     duplicate_scope, tags, response),
                 response)

InitAddNote ==
    /\ QueryIdle /\ EscapeIdle /\ ClassifyIdle /\ ModelIdle /\ ClientIdle /\ NoteOpIdle
    /\ nb = None
    /\ foreign_ref = FALSE
    /\ note_result \in {Some(r) : r \in AddNoteNotes}
    /\ last_write = <<>>
    /\ overwrote = FALSE
    /\ tag_calls = <<>>

NextAddNote ==
    \E allow_duplicate \in BOOLEAN, duplicate_scope \in {None, Some("Deck")},
       response \in SimpleResponses :
       AddNote(Deck_new(1234, "Default"), allow_duplicate, duplicate_scope, response)

SpecAddNote == InitAddNote /\ [][NextAddNote]_vars

\* the places in the note's media list of the attachments of a kind
PlacesOf(media, type) == {i \in 1..Len(media) : media[i].media.media_type = type}

\* the request Media is the attachment: its filename, its one target field,
\* and of path, url and data the one of its source and no other
IsDtoOf(dto, field_media) ==
    LET source == field_media.media.source
        populated == {k \in {"path", "url", "data"} : dto[k] # None}
        key == CASE source.variant = "Path" -> "path"
                 [] source.variant = "Url" -> "url"
                 [] source.variant = "Base64" -> "data"
    IN  /\ populated = {key}
        /\ dto[key] = Some(source.value)
        /\ dto.filename = field_media.media.filename
        /\ dto.fields = <<field_media.field>>

\* the list holds the attachments of the kind, each once, in the note's order
IsListOf(list, media, type) ==
    /\ Len(list) = Cardinality(PlacesOf(media, type))
    /\ \A i \in PlacesOf(media, type) :
          IsDtoOf(list[Cardinality({j \in PlacesOf(media, type) : j <= i})], media[i])

\* C23: in the addNote request every attachment of the note is in exactly
\* one of audio, video, picture, the one of its kind, in the note's relative
\* order, with exactly one of path / url / data populated, that of its
\* source, and fields its one target field; none is dropped or duplicated.
C23_AddNoteMediaLists ==
    client_call.op = "add_note"
       => LET dto == sent[1].params[1].note
              media == note_result[1].value.media
          IN  /\ Len(sent) = 1
              /\ sent[1].action = "addNote"
              /\ IsListOf(dto.audio, media, "Audio")
              /\ IsListOf(dto.video, media, "Video")
              /\ IsListOf(dto.picture, media, "Image")
              /\ Len(dto.audio) + Len(dto.video) + Len(dto.picture) = Len(media)

\* a note with two audio attachments of different sources was sent
C23_Witness ==
    /\ client_call.op = "add_note"
    /\ LET dto == sent[1].params[1].note
       IN  /\ Len(dto.audio) = 2
           /\ dto.audio[1].url = Some("http://x/a.mp3") /\ dto.audio[1].fields = <<"Back">>
           /\ dto.audio[2].data = Some("QUJD") /\ dto.audio[2].fields = <<"Front">>
           /\ dto.video = <<>>

(***************************************************************************)
(* build() on the builders that with_field_raw calls and then with_audio   *)
(* calls leave, the FieldRefs being of any model                           *)
(***************************************************************************)
\* a FieldRef for the name, of some model that has the field
RefNamed(name) == CHOOSE r \in FieldRefs : FieldRef_name(r) = name

\* with_field_raw for each of the names from the i-th on, in order
RECURSIVE WriteAll(_, _, _)
WriteAll(b, names, i) ==
    IF i > Len(names) THEN b
    ELSE WriteAll(NoteBuilder_with_field_raw(b, RefNamed(names[i]), "dog"), names, i + 1)

\* with_audio for each of the target names from the i-th on, in order
RECURSIVE AttachAll(_, _, _)
AttachAll(b, targets, i) ==
    IF i > Len(targets) THEN b
    ELSE AttachAll(NoteBuilder_with_audio(b, RefNamed(targets[i]),
                                          MediaSource_Path("/tmp/a.mp3"), "a.mp3"),
                   targets, i + 1)

InitNoteOrder ==
    /\ QueryIdle /\ EscapeIdle /\ ClassifyIdle /\ ModelIdle /\ ClientIdle /\ NoteOpIdle
    /\ \E m \in NoteModels, names \in SeqsUpTo(NoteFieldNames, MaxAttach),
          targets \in SeqsUpTo(NoteFieldNames, MaxAttach) :
          /\ nb = Some(AttachAll(WriteAll(NoteBuilder_new(m), names, 1), targets, 1))
          /\ foreign_ref = \E i \in 1..Len(names) : RefNamed(names[i]).model # m
          /\ last_write = [k \in {names[i] : i \in 1..Len(names)} |->
                              [content |-> "dog", raw |-> TRUE]]
          /\ overwrote = \E i, j \in 1..Len(names) : i # j /\ names[i] = names[j]
    /\ note_result = None
    /\ tag_calls = <<>>

NextNoteOrder == NoteBuild

SpecNoteOrder == InitNoteOrder /\ [][NextNoteOrder]_vars

\* the stored field-value names that are no field of the builder's model
UnknownKeys(b) == DOMAIN b.field_values \ FieldNamesOf(b.model)

\* the places in the media list whose target is no field of the model
UnknownTargets(b) == {i \in 1..Len(b.media) : b.media[i].field \notin FieldNamesOf(b.model)}

\* a failed build names a field-value name if one is unknown, and otherwise
\* the target of the first attachment, in insertion order, that is unknown
FieldValuesThenMediaInOrder ==
    (note_result # None /\ ~note_result[1].ok)
       => LET b == nb[1]
              name == note_result[1].error.arg[1]
          IN  /\ note_result[1].error.variant = "UnknownField"
              /\ UnknownKeys(b) # {} => name \in UnknownKeys(b)
              /\ UnknownKeys(b) = {}
                    => /\ UnknownTargets(b) # {}
                       /\ \E i \in UnknownTargets(b) :
                             /\ name = b.media[i].field
                             /\ \A j \in UnknownTargets(b) : i <= j

\* this step is a build whose result is the only one build can return for
\* the builder
BuildIsDetermined ==
    \A result \in NoteBuilder_build(nb[1]) : note_result' = Some(result)

\* C24, as stated: a failed build names a field-value name before any media
\* target, the media targets in insertion order, and the name it reports is
\* determined by the builder's contents.
C24_FirstOffendingIsDetermined ==
    /\ []FieldValuesThenMediaInOrder
    /\ [][note_result' # None => BuildIsDetermined]_note_vars

\* C24, amended: the same order, and the name is determined by the
\* builder's contents when at most one stored field value names a field
\* outside the model; when several do the name is one of them.
C24_FirstOffendingInCheckOrder ==
    /\ []FieldValuesThenMediaInOrder
    /\ [][(note_result' # None /\ Cardinality(UnknownKeys(nb[1])) <= 1)
            => BuildIsDetermined]_note_vars

\* a builder with an unknown field value and, before a known one, an unknown
\* media target was refused with the name of the field value
C24_Witness ==
    /\ note_result = Some(Err(NoteError_UnknownField("Back")))
    /\ FieldNamesOf(nb[1].model) = {"Front"}
    /\ DOMAIN nb[1].field_values = {"Front", "Back"}
    /\ Len(nb[1].media) = 2
    /\ nb[1].media[1].field = "Extra"
    /\ nb[1].media[2].field = "Front"

(***************************************************************************)
(* add_note of the older client: one step for validate_fields and its      *)
(* `?`, one for the addNote request                                        *)
(***************************************************************************)
OldCardFields == {"Front", "Back", "SomeNonExistingField"}

\* the cards of a model identifier with contents for some of the fields
AnkiCards ==
    {[model |-> AnkiModelIdentifier_new(1, "Basic"),
      fields |-> [f \in populated |-> "content"],
      tags |-> <<"t1">>] : populated \in SUBSET OldCardFields}

FieldNamesResponses == FieldsResponses \cup {[kind |-> "http_error"]}

AddNoteValidate(deck, anki_card, allow_duplicate, duplicate_scope, response) ==
    /\ ClientReady
    /\ client_call' = [op |-> "anki_connect_client.add_note", deck |-> deck,
                       anki_card |-> anki_card, allow_duplicate |-> allow_duplicate,
                       duplicate_scope |-> duplicate_scope]
    /\ sent' = <<AnkiClient_get_field_names_for_model_request(anki_card.model)>>
    /\ answers' = <<response>>
    /\ \E validated \in AnkiClient_validate_fields(anki_card, response) :
          client_result' = IF validated.ok THEN None ELSE Some(validated)
    /\ pending' = <<>>
    /\ models' = <<>>
    /\ UNCHANGED NotClientVars

AddNoteSend(response) ==
    /\ client_call.op = "anki_connect_client.add_note" /\ client_result = None
    /\ sent' = Append(sent, AnkiClient_add_note_request(client_call.deck,
                                client_call.anki_card, client_call.allow_duplicate,
                                client_call.duplicate_scope))
    /\ answers' = Append(answers, response)
    /\ client_result' = Some(send_request_into_result(response))
    /\ UNCHANGED <<client_call, pending, models, NotClientVars>>

NextOldClient ==
    \/ \E anki_card \in AnkiCards, allow_duplicate \in BOOLEAN,
          response \in FieldNamesResponses :
          AddNoteValidate(Deck_new(1, "Default"), anki_card, allow_duplicate, None, response)
    \/ \E response \in SimpleResponses : AddNoteSend(response)

SpecOldClient == InitClient /\ [][NextOldClient]_vars

\* the field names the first request was answered with, if it was
AnsweredNames ==
    IF answers[1].kind = "json" /\ answers[1].error = None /\ answers[1].result # None
    THEN Some({answers[1].result[1][i] : i \in 1..Len(answers[1].result[1])})
    ELSE None

\* C26: add_note of the older client first sends modelFieldNames; addNote
\* is sent only as a second request and only after every field of the card
\* was found among the names answered; if a field is not among them the
\* result is InvalidField(field, model) and if the first request failed the
\* result is its error, and in both cases no addNote request is sent.
C26_AddNoteValidatesFirst ==
    client_call.op = "anki_connect_client.add_note"
       => LET card == client_call.anki_card
          IN  /\ Len(sent) \in {1, 2}
              /\ Len(answers) = Len(sent)
              /\ sent[1].action = "modelFieldNames"
              /\ sent[1].params[1].modelName = card.model.name
              /\ Len(sent) = 2
                    => /\ sent[2].action = "addNote"
                       /\ AnsweredNames # None
                       /\ DOMAIN card.fields \subseteq AnsweredNames[1]
              /\ (AnsweredNames # None /\ ~(DOMAIN card.fields \subseteq AnsweredNames[1]))
                    => /\ Len(sent) = 1
                       /\ client_result # None
                       /\ ~client_result[1].ok
                       /\ client_result[1].error.variant = "InvalidField"
                       /\ client_result[1].error.field \in DOMAIN card.fields \ AnsweredNames[1]
                       /\ client_result[1].error.model = card.model
              /\ AnsweredNames = None
                    => /\ Len(sent) = 1
                       /\ client_result # None
                       /\ ~client_result[1].ok
                       /\ client_result[1].error.variant \in {"HttpError", "AnkiConnectError"}

\* the card of the test: Front, Back and a field the model does not have
C26_Witness ==
    /\ client_call.op = "anki_connect_client.add_note"
    /\ DOMAIN client_call.anki_card.fields = {"Front", "Back", "SomeNonExistingField"}
    /\ answers = <<[kind |-> "json", result |-> Some(<<"Front", "Back">>), error |-> None]>>
    /\ Len(sent) = 1
    /\ client_result = Some(Err(AnkiRequestError_InvalidField("SomeNonExistingField",
                                     AnkiModelIdentifier_new(1, "Basic"))))

(***************************************************************************)
(* A Note made by Note::new or Note::with_id and the methods then called   *)
(* on it by its owner                                                      *)
(***************************************************************************)
NoteOpValues == {"a", "b"}
NoteOpMedia == Media_audio(MediaSource_Path("/tmp/a.mp3"), "a.mp3")

\* the field values, tags and media handed to the constructors
NoteOpFieldValues ==
    {[k \in keys |-> "a"] : keys \in {s \in SUBSET NoteFieldNames : Cardinality(s) <= 1}}
NoteOpMediaVecs ==
    {<<>>} \cup {<<FieldMedia(NoteOpMedia, field)>> : field \in NoteFieldNames}

NotNoteOpVars ==
    <<query_vars, escape_vars, classify_vars, model_vars, client_vars,
      nb, foreign_ref, last_write, overwrote, tag_calls>>

\* a constructor returned: the Note, if any, is now its caller's
Constructed(call, result) ==
    /\ note_result' = Some(result)
    /\ owned_note' = IF result.ok THEN Some(result.value) ELSE None
    /\ note_call' = call
    /\ UNCHANGED NotNoteOpVars

NoteNew(model, field_values, tags, media) ==
    /\ owned_note = None
    /\ \E result \in Note_new(model, field_values, tags, media) :
          Constructed([op |-> "new"], result)

NoteWithId(id, model, field_values, tags, media) ==
    /\ owned_note = None
    /\ \E result \in Note_with_id(id, model, field_values, tags, media) :
          Constructed([op |-> "with_id"], result)

\* a &mut self method returned
Mutated(call, outcome) ==
    /\ owned_note' = Some(outcome.note)
    /\ note_call' = [call EXCEPT !.return = outcome.return]
    /\ UNCHANGED <<note_result, NotNoteOpVars>>

UpdateField(field_name, value) ==
    /\ owned_note # None
    /\ Mutated([op |-> "update_field", field_name |-> field_name, value |-> value,
                return |-> None],
               Note_update_field(owned_note[1], field_name, value))

AddTag(tag) ==
    /\ owned_note # None
    /\ Mutated([op |-> "add_tag", tag |-> tag, return |-> None],
               Note_add_tag(owned_note[1], tag))

RemoveTag(tag) ==
    /\ owned_note # None
    /\ Mutated([op |-> "remove_tag", tag |-> tag, return |-> None],
               Note_remove_tag(owned_note[1], tag))

AddMedia(field_name, media) ==
    /\ owned_note # None
    /\ Len(owned_note[1].media) < MaxAttach
    /\ Mutated([op |-> "add_media", field_name |-> field_name, media |-> media,
                return |-> None],
               Note_add_media(owned_note[1], field_name, media))

NextNoteOp ==
    \/ \E model \in NoteModels, field_values \in NoteOpFieldValues,
          tags \in {{}, {"t1"}}, media \in NoteOpMediaVecs :
          NoteNew(model, field_values, tags, media)
    \/ \E model \in NoteModels, field_values \in NoteOpFieldValues,
          tags \in {{}, {"t1"}}, media \in NoteOpMediaVecs :
          NoteWithId(NoteId(1234), model, field_values, tags, media)
    \/ \E field_name \in NoteFieldNames, value \in NoteOpValues :
          UpdateField(field_name, value)
    \/ \E tag \in NoteTags : AddTag(tag)
    \/ \E tag \in NoteTags : RemoveTag(tag)
    \/ \E field_name \in NoteFieldNames : AddMedia(field_name, NoteOpMedia)

SpecNoteOp == InitNote /\ [][NextNoteOp]_vars

\* this step is a call of a method on the Note its owner holds
MethodCalled == owned_note # None /\ owned_note' # None

C28_NoteNamesFieldsOfItsModel ==
    /\ [](owned_note # None
            => /\ DOMAIN owned_note[1].field_values \subseteq FieldNamesOf(owned_note[1].model)
               /\ \A i \in 1..Len(owned_note[1].media) :
                     owned_note[1].media[i].field \in FieldNamesOf(owned_note[1].model))
    /\ [][(MethodCalled /\ note_call'.op \in {"update_field", "add_media"}
              /\ note_call'.field_name \notin FieldNamesOf(owned_note[1].model))
            => /\ note_call'.return = Err(NoteError_UnknownField(note_call'.field_name))
               /\ owned_note' = owned_note
         ]_noteop_vars
    /\ [][(MethodCalled /\ note_call'.op \in {"update_field", "add_media"}
              /\ note_call'.field_name \in FieldNamesOf(owned_note[1].model))
            => note_call'.return = Ok("()")
         ]_noteop_vars

\* update_field named a field the model lacks and the Note kept its values
C28_Witness ==
    /\ note_call = [op |-> "update_field", field_name |-> "Extra", value |-> "b",
                    return |-> Err(NoteError_UnknownField("Extra"))]
    /\ FieldNamesOf(owned_note[1].model) = {"Front", "Back"}
    /\ owned_note[1].field_values = [Front |-> "a"]
    /\ owned_note[1].id = Some(NoteId(1234))
    /\ Len(owned_note[1].media) = 1

====
